---- MODULE Spec2Model ----
(***************************************************************************)
(* The documentation cache of explain-config (explain_config/docs_manager): *)
(* two cache sources (the Elastic bulk archive and the upstream per-        *)
(* component READMEs), each with a JSON cache record and a corpus           *)
(* directory, aged against the wall clock.                                  *)
(***************************************************************************)
EXTENDS Integers, Sequences, FiniteSets, TLC

VARIABLES
    now,               \* datetime.now(), in whole hours since the epoch
    include_upstream,  \* DocsManager.include_upstream
    cache_info_file,   \* content of CACHE_DIR/cache_info.json
    extracted_dir,     \* CACHE_DIR/extracted
    zip_file,          \* content of CACHE_DIR/docs.zip
    otel_info_file,    \* content of OTEL_CACHE_DIR/cache_info.json
    otel_docs_dir,     \* OTEL_CACHE_DIR/collector_docs
    sweep,             \* locals of a running download_otel_docs call
    fetch,             \* locals of a running download_docs call
    context,           \* the most recent get_component_context call
    explainer,         \* the explainer of this session and its latest prompt
    last               \* the most recent call: arguments, result, requests

vars == <<now, include_upstream, cache_info_file, extracted_dir, zip_file,
          otel_info_file, otel_docs_dir, sweep, fetch, context,
          explainer, last>>

bulk_vars == <<cache_info_file, extracted_dir, zip_file>>

otel_vars == <<otel_info_file, otel_docs_dir>>

(***************************************************************************)
(* Clock.  The expiry policy is in days; the model's clock ticks in hours   *)
(* and visits the hours around each multiple of the expiry period.          *)
(***************************************************************************)
CACHE_EXPIRY_DAYS == 7

MaxWeeks == 1

ExpiryHours == CACHE_EXPIRY_DAYS * 24

Times == {0} \cup {w * ExpiryHours + e : w \in 1..MaxWeeks, e \in {-1, 0, 1}}

(***************************************************************************)
(* datetime.isoformat / datetime.fromisoformat on the model's clock: the    *)
(* text is two day digits, the separator "T" and two hour digits.           *)
(***************************************************************************)
Digits == <<"0", "1", "2", "3", "4", "5", "6", "7", "8", "9">>

DigitChar(n) == Digits[n + 1]

IsDigit(c) == \E n \in 0..9 : Digits[n + 1] = c

DigitVal(c) == CHOOSE n \in 0..9 : Digits[n + 1] = c

isoformat_date_only(t) ==
    <<DigitChar((t \div 24) \div 10), DigitChar((t \div 24) % 10)>>

isoformat(t) ==
    <<DigitChar((t \div 24) \div 10), DigitChar((t \div 24) % 10), "T",
      DigitChar((t % 24) \div 10), DigitChar((t % 24) % 10)>>

\* [ok |-> FALSE] stands for ValueError.
fromisoformat(s) ==
    IF Len(s) = 2 /\ IsDigit(s[1]) /\ IsDigit(s[2])
    THEN [ok |-> TRUE, t |-> (DigitVal(s[1]) * 10 + DigitVal(s[2])) * 24]
    ELSE IF /\ Len(s) = 5
            /\ IsDigit(s[1]) /\ IsDigit(s[2]) /\ ~IsDigit(s[3])
            /\ IsDigit(s[4]) /\ IsDigit(s[5])
            /\ DigitVal(s[4]) * 10 + DigitVal(s[5]) < 24
    THEN [ok |-> TRUE,
          t |-> (DigitVal(s[1]) * 10 + DigitVal(s[2])) * 24
                + DigitVal(s[4]) * 10 + DigitVal(s[5])]
    ELSE [ok |-> FALSE, t |-> 0]

(***************************************************************************)
(* Cache record files.  A file is absent, holds text that is not JSON       *)
(* (empty or garbage), a JSON value that is not an object, or a JSON        *)
(* object.  For an object, lu tells what sits under "last_updated":         *)
(* nothing, a falsy value (null, "", 0, false), a truthy value that is not  *)
(* a string, or the string `text`.                                          *)
(***************************************************************************)
RecordFile(form, lu, text, version, files) ==
    [form |-> form, lu |-> lu, text |-> text, version |-> version,
     files_downloaded |-> files]

AbsentFile == RecordFile("absent", "none", <<>>, "", 0)

\* A Python dict as json.load returns it, or as the fetchers build it.
Dict(lu, text, version, files) ==
    [type |-> "dict", lu |-> lu, text |-> text, version |-> version,
     files_downloaded |-> files]

EmptyDict == Dict("none", <<>>, "", 0)

\* json.load: [ok |-> FALSE] stands for JSONDecodeError.
json_load(f) ==
    IF f.form \in {"empty", "notjson"}
    THEN [ok |-> FALSE, value |-> EmptyDict]
    ELSE [ok |-> TRUE,
          value |-> [type |-> IF f.form = "object" THEN "dict" ELSE "other",
                     lu |-> f.lu, text |-> f.text, version |-> f.version,
                     files_downloaded |-> f.files_downloaded]]

\* open(file, 'w'); json.dump(info, f)
json_dump(info) ==
    RecordFile("object", info.lu, info.text, info.version, info.files_downloaded)

_get_cache_info(f) ==
    IF f.form # "absent"
    THEN IF json_load(f).ok THEN json_load(f).value ELSE EmptyDict
    ELSE EmptyDict

\* _save_cache_info with the timestamp left out of what is written.
_save_cache_info_drops_timestamp(info) ==
    json_dump(Dict("none", <<>>, info.version, info.files_downloaded))

_save_cache_info(info) == json_dump(info)

\* The result is "True", "False" or the name of the exception that escapes.
_is_cache_stale_nonstrict(f, t) ==
    LET cache_info == _get_cache_info(f) IN
    IF cache_info.type # "dict" THEN "AttributeError"
    ELSE IF cache_info.lu \in {"none", "falsy"} THEN "True"
    ELSE IF cache_info.lu # "string" THEN "TypeError"
    ELSE LET last_updated == fromisoformat(cache_info.text) IN
         IF ~last_updated.ok THEN "True"
         ELSE IF t >= last_updated.t + ExpiryHours THEN "True" ELSE "False"

_is_cache_stale(f, t) ==
    LET cache_info == _get_cache_info(f) IN
    IF cache_info.type # "dict" THEN "AttributeError"
    ELSE IF cache_info.lu \in {"none", "falsy"} THEN "True"
    ELSE IF cache_info.lu # "string" THEN "TypeError"
    ELSE LET last_updated == fromisoformat(cache_info.text) IN
         IF ~last_updated.ok THEN "True"
         ELSE IF t > last_updated.t + ExpiryHours THEN "True" ELSE "False"

_get_otel_cache_info(f) ==
    IF f.form # "absent"
    THEN IF json_load(f).ok THEN json_load(f).value ELSE EmptyDict
    ELSE EmptyDict

_save_otel_cache_info(info) == json_dump(info)

_is_otel_cache_stale(f, t) ==
    LET cache_info == _get_otel_cache_info(f) IN
    IF cache_info.type # "dict" THEN "AttributeError"
    ELSE IF cache_info.lu \in {"none", "falsy"} THEN "True"
    ELSE IF cache_info.lu # "string" THEN "TypeError"
    ELSE LET last_updated == fromisoformat(cache_info.text) IN
         IF ~last_updated.ok THEN "True"
         ELSE IF t > last_updated.t + ExpiryHours THEN "True" ELSE "False"

(***************************************************************************)
(* Directories and the bulk archive.                                        *)
(***************************************************************************)
DocNames == {"a.md", "b.md"}

Dir(exists, files) == [exists |-> exists, files |-> files]

NoDir == Dir(FALSE, {})

\* rmtree that leaves the files of the old tree where they are.
rmtree_keeps_files(d) == d

\* shutil.rmtree(d)
rmtree(d) == NoDir

\* d.mkdir(parents=True, exist_ok=True)
mkdir(d) == IF d.exists THEN d ELSE Dir(TRUE, {})

\* zip_ref.extractall(d): the members that extract land in the directory.
extractall(d, zip) == Dir(TRUE, d.files \cup zip.readable)

\* What the archive URL serves: bytes that are no zip archive, or an archive
\* of `files` of which the members in `readable` extract without error.
Content(kind, files, readable) ==
    [kind |-> kind, files |-> files, readable |-> readable]

NoContent == Content("none", {}, {})

Contents ==
    {Content("notzip", {}, {}),
     Content("zip", {"a.md"}, {"a.md"}),
     Content("zip", DocNames, DocNames),
     Content("zip", DocNames, {"a.md"}),
     Content("zip", DocNames, {})}

\* requests.get(DOCS_URL, timeout=30) followed by raise_for_status():
\* RequestException (transport error, timeout), HTTPError, or a body.
Response(status, content) == [status |-> status, content |-> content]

Responses ==
    {Response("transport_error", NoContent), Response("http_error", NoContent)}
    \cup {Response("ok", c) : c \in Contents}

Outcome(cache, dir, zip, result, exc, requests) ==
    [cache |-> cache, dir |-> dir, zip |-> zip, result |-> result,
     exc |-> exc, requests |-> requests]

\* bulk_fetch with the old directory removed before the request is made.
bulk_fetch_clear_first(resp, f, d, z, t) ==
    LET cleared == mkdir(IF d.exists THEN rmtree(d) ELSE d) IN
    IF resp.status # "ok"
    THEN Outcome(f, cleared, z, "raised", "Failed to download docs", 1)
    ELSE LET zip == resp.content IN
         IF zip.kind # "zip"
         THEN Outcome(f, cleared, zip, "raised",
                      "Downloaded file is not a valid zip archive", 1)
         ELSE IF zip.readable # zip.files
         THEN Outcome(f, Dir(TRUE, zip.readable), zip, "raised",
                      "Error processing docs", 1)
         ELSE Outcome(_save_cache_info(Dict("string", isoformat(t), "unknown", 0)),
                      Dir(TRUE, zip.files), zip, "True", "none", 1)

\* bulk_fetch with the record saved as soon as the body is on disk.
bulk_fetch_save_first(resp, f, d, z, t) ==
    IF resp.status # "ok"
    THEN Outcome(f, d, z, "raised", "Failed to download docs", 1)
    ELSE LET zip == resp.content
             cleared == mkdir(IF d.exists THEN rmtree(d) ELSE d)
             saved == _save_cache_info(Dict("string", isoformat(t), "unknown", 0))
         IN  IF zip.kind # "zip"
             THEN Outcome(saved, cleared, zip, "raised",
                          "Downloaded file is not a valid zip archive", 1)
             ELSE IF zip.readable # zip.files
             THEN Outcome(saved, Dir(TRUE, zip.readable), zip, "raised",
                          "Error processing docs", 1)
             ELSE Outcome(saved, Dir(TRUE, zip.files), zip, "True", "none", 1)

\* The try block of download_docs (lines 87-119).
bulk_fetch(resp, f, d, z, t) ==
    IF resp.status # "ok"
    THEN Outcome(f, d, z, "raised", "Failed to download docs", 1)
    ELSE LET zip == resp.content
             cleared == mkdir(IF d.exists THEN rmtree(d) ELSE d)
         IN  IF zip.kind # "zip"
             THEN Outcome(f, cleared, zip, "raised",
                          "Downloaded file is not a valid zip archive", 1)
             ELSE IF zip.readable # zip.files
             THEN Outcome(f, extractall(cleared, zip), zip, "raised",
                          "Error processing docs", 1)
             ELSE Outcome(_save_cache_info(Dict("string", isoformat(t), "unknown", 0)),
                          extractall(cleared, zip), zip, "True", "none", 1)

download_docs(force, resp, f, d, z, t) ==
    IF force
    THEN bulk_fetch(resp, f, d, z, t)
    ELSE LET stale == _is_cache_stale(f, t) IN
         IF stale \notin {"True", "False"}
         THEN Outcome(f, d, z, "raised", stale, 0)
         ELSE IF stale = "False" /\ d.exists
         THEN Outcome(f, d, z, "False", "none", 0)
         ELSE bulk_fetch(resp, f, d, z, t)

\* A call as its caller and the transport observe it, until the clock next
\* moves: the operation, its argument, what its latest request was served,
\* what the call returned or raised, the requests it issued and (get_cache_status) the
\* two staleness answers it reports.
Call(op, force, served, result, exc, requests, stale, otel_stale) ==
    [op |-> op, force |-> force, served |-> served, result |-> result,
     exc |-> exc, requests |-> requests, stale |-> stale,
     otel_stale |-> otel_stale]

NoCall == Call("none", FALSE, "none", "none", "none", 0, "not evaluated",
               "not evaluated")

\* DownloadDocs with the upstream directory kept inside the extracted one,
\* so that the rmtree of a bulk fetch takes it along.
DownloadDocsSharedDirectory ==
    /\ sweep.pc = "idle"
    /\ \E force \in BOOLEAN, resp \in Responses :
        \E r \in {download_docs(force, resp, cache_info_file, extracted_dir,
                                zip_file, now)} :
            /\ cache_info_file' = r.cache
            /\ extracted_dir' = r.dir
            /\ zip_file' = r.zip
            /\ otel_docs_dir' = (IF r.requests > 0 /\ resp.status = "ok"
                                 THEN [exists |-> FALSE, types |-> {}, files |-> {}]
                                 ELSE otel_docs_dir)
            /\ last' = Call("download_docs", force,
                            IF r.requests = 0 THEN "none" ELSE resp.status,
                            r.result, r.exc, r.requests, "not evaluated",
                            "not evaluated")
    /\ UNCHANGED <<now, include_upstream, context, explainer, fetch, otel_info_file, sweep>>

DownloadDocs ==
    /\ sweep.pc = "idle"
    /\ \E force \in BOOLEAN, resp \in Responses :
        \E r \in {download_docs(force, resp, cache_info_file, extracted_dir,
                                zip_file, now)} :
            /\ cache_info_file' = r.cache
            /\ extracted_dir' = r.dir
            /\ zip_file' = r.zip
            /\ last' = Call("download_docs", force,
                            IF r.requests = 0 THEN "none" ELSE resp.status,
                            r.result, r.exc, r.requests, "not evaluated",
                            "not evaluated")
    /\ UNCHANGED <<now, include_upstream, context, explainer, fetch, otel_vars, sweep>>

\* The clock moves: between calls, or while a sweep is waiting for an answer.
Tick ==
    /\ \E t \in Times : t > now /\ now' = t
    /\ last' = IF sweep.pc = "idle" THEN NoCall ELSE last
    /\ UNCHANGED <<include_upstream, context, explainer, fetch, bulk_vars, otel_vars, sweep>>

(***************************************************************************)
(* The per-component source: download_otel_docs, one step per request.      *)
(***************************************************************************)
component_types == <<"receiver", "processor", "exporter", "extension">>

\* The head of each static list of the source.
common_components(component_type) ==
    CASE component_type = "receiver" -> <<"otlpreceiver", "prometheusreceiver">>
      [] component_type = "processor" -> <<"batchprocessor">>
      [] component_type = "exporter" -> <<"otlpexporter">>
      [] component_type = "extension" -> <<"healthcheckextension">>
      [] OTHER -> <<>>

OtelDir(exists, types, files) ==
    [exists |-> exists, types |-> types, files |-> files]

NoOtelDir == OtelDir(FALSE, {}, {})

\* otel_clear without the rmtree: the files of earlier runs stay.
otel_clear_keeps_files(d) == OtelDir(TRUE, d.types, d.files)

\* shutil.rmtree(otel_docs_dir) when it exists, then mkdir.
otel_clear(d) == OtelDir(TRUE, {}, {})

\* What the directory-listing endpoint answers: an exception, a status other
\* than 200, a 200 whose JSON body is no list, or a list of entries.
Entry(name, type) == [name |-> name, type |-> type]

Listing(kind, entries) == [kind |-> kind, entries |-> entries]

Listings ==
    {Listing("error", <<>>), Listing("non200", <<>>), Listing("nonlist", <<>>),
     Listing("list", <<>>),
     Listing("list", <<Entry("README.md", "file"), Entry("", "dir")>>),
     Listing("list", <<Entry("README.md", "file"), Entry("newcomponent", "dir")>>)}

\* components_to_try with the static list appended to the listed names.
components_to_try_appends_static(component_type, listing) ==
    LET IsNamedDir(c) == c.type = "dir" /\ c.name # ""
        listed == IF listing.kind = "list"
                  THEN SelectSeq(listing.entries, IsNamedDir)
                  ELSE <<>>
        names == [i \in 1..Len(listed) |-> listed[i].name]
    IN  names \o common_components(component_type)

\* Lines 229-244: the names to try for one category.
components_to_try(component_type, listing) ==
    LET IsNamedDir(c) == c.type = "dir" /\ c.name # ""
        listed == IF listing.kind = "list"
                  THEN SelectSeq(listing.entries, IsNamedDir)
                  ELSE <<>>
        names == [i \in 1..Len(listed) |-> listed[i].name]
    IN  IF names # <<>> THEN names ELSE common_components(component_type)

\* What the raw content endpoint answers for one candidate; "200 unwritable"
\* is a 200 whose write_text raises IOError/OSError.
FileResponses ==
    {"200", "200 unwritable", "404", "403", "other", "transport_error"}

\* Lines 251-291: one candidate.
Acc(dir, files_downloaded, requests) ==
    [dir |-> dir, files_downloaded |-> files_downloaded, requests |-> requests]

\* fetch_candidate with a 200 counted even when the file could not be written.
fetch_candidate_counts_unwritable(resp, component_type, component_name, acc) ==
    IF component_name = "" THEN acc
    ELSE IF resp = "200"
    THEN Acc(OtelDir(acc.dir.exists, acc.dir.types,
                     acc.dir.files \cup {<<component_type, component_name>>}),
             acc.files_downloaded + 1, acc.requests + 1)
    ELSE IF resp = "200 unwritable"
    THEN Acc(acc.dir, acc.files_downloaded + 1, acc.requests + 1)
    ELSE Acc(acc.dir, acc.files_downloaded, acc.requests + 1)

fetch_candidate(resp, component_type, component_name, acc) ==
    IF component_name = "" THEN acc
    ELSE IF resp = "200"
    THEN Acc(OtelDir(acc.dir.exists, acc.dir.types,
                     acc.dir.files \cup {<<component_type, component_name>>}),
             acc.files_downloaded + 1, acc.requests + 1)
    ELSE Acc(acc.dir, acc.files_downloaded, acc.requests + 1)

\* otel_begin with the force argument ignored.
otel_begin_ignores_force(force, incl, f, d, t) ==
    IF ~incl
    THEN [go |-> FALSE, result |-> "False", exc |-> "none"]
    ELSE LET stale == _is_otel_cache_stale(f, t) IN
         IF stale \notin {"True", "False"}
         THEN [go |-> FALSE, result |-> "raised", exc |-> stale]
         ELSE IF stale = "False" /\ d.exists
         THEN [go |-> FALSE, result |-> "False", exc |-> "none"]
         ELSE [go |-> TRUE, result |-> "none", exc |-> "none"]

\* Lines 159-177: the guard and the clearing of the directory.
otel_begin(force, incl, f, d, t) ==
    IF ~incl
    THEN [go |-> FALSE, result |-> "False", exc |-> "none"]
    ELSE IF force
    THEN [go |-> TRUE, result |-> "none", exc |-> "none"]
    ELSE LET stale == _is_otel_cache_stale(f, t) IN
         IF stale \notin {"True", "False"}
         THEN [go |-> FALSE, result |-> "raised", exc |-> stale]
         ELSE IF stale = "False" /\ d.exists
         THEN [go |-> FALSE, result |-> "False", exc |-> "none"]
         ELSE [go |-> TRUE, result |-> "none", exc |-> "none"]

\* otel_finish with the record saved whatever the count.
otel_finish_always_saves(files_downloaded, f, t) ==
    [cache |-> _save_otel_cache_info(
                   Dict("string", isoformat(t), "", files_downloaded)),
     result |-> IF files_downloaded > 0 THEN "True" ELSE "False"]

\* Lines 293-302: the record is saved when a file was downloaded.
otel_finish(files_downloaded, f, t) ==
    IF files_downloaded > 0
    THEN [cache |-> _save_otel_cache_info(
                        Dict("string", isoformat(t), "", files_downloaded)),
          result |-> "True"]
    ELSE [cache |-> f, result |-> "False"]

\* Line 226: type_dir.mkdir(parents=True, exist_ok=True)
make_type_dir(d, component_type) ==
    OtelDir(TRUE, d.types \cup {component_type}, d.files)

\* The whole call under one environment: `listing` answers every listing
\* request, `first` the content request of the first candidate of each
\* category and `rest` those of the later candidates.
SweepEnvs ==
    [listing : {l \in Listings : l.kind = "error" \/ Len(l.entries) > 0},
     first : {"200", "404", "transport_error"},
     rest : {"200", "403"}]

RECURSIVE fetch_all(_, _, _, _, _)
fetch_all(component_type, names, i, env, acc) ==
    IF i > Len(names) THEN acc
    ELSE fetch_all(component_type, names, i + 1, env,
                   fetch_candidate(IF i = 1 THEN env.first ELSE env.rest,
                                   component_type, names[i], acc))

RECURSIVE sweep_types(_, _, _)
sweep_types(k, env, acc) ==
    IF k > Len(component_types) THEN acc
    ELSE LET component_type == component_types[k]
             made == Acc(make_type_dir(acc.dir, component_type),
                         acc.files_downloaded, acc.requests + 1)
         IN  sweep_types(k + 1, env,
                         fetch_all(component_type,
                                   components_to_try(component_type, env.listing),
                                   1, env, made))

OtelOutcome(cache, dir, result, exc, requests) ==
    [cache |-> cache, dir |-> dir, result |-> result, exc |-> exc,
     requests |-> requests]

download_otel_docs(force, env, incl, f, d, t) ==
    LET b == otel_begin(force, incl, f, d, t) IN
    IF ~b.go
    THEN OtelOutcome(f, d, b.result, b.exc, 0)
    ELSE LET acc == sweep_types(1, env, Acc(otel_clear(d), 0, 0))
             fin == otel_finish(acc.files_downloaded, f, t)
         IN  OtelOutcome(fin.cache, acc.dir, fin.result, "none", acc.requests)

DownloadOtelDocs ==
    /\ sweep.pc = "idle"
    /\ \E force \in BOOLEAN, env \in SweepEnvs :
        \E r \in {download_otel_docs(force, env, include_upstream,
                                     otel_info_file, otel_docs_dir, now)} :
            /\ otel_info_file' = r.cache
            /\ otel_docs_dir' = r.dir
            /\ last' = Call("download_otel_docs", force, "none", r.result,
                            r.exc, r.requests, "not evaluated",
                            "not evaluated")
    /\ UNCHANGED <<now, include_upstream, context, explainer, fetch, bulk_vars, sweep>>

\* The same call taken one request at a time, each request answered on its
\* own.
Sweep(pc, force, cat, names, idx, files_downloaded) ==
    [pc |-> pc, force |-> force, cat |-> cat, names |-> names, idx |-> idx,
     files_downloaded |-> files_downloaded]

Idle == Sweep("idle", FALSE, 0, <<>>, 0, 0)

OtelBegin ==
    /\ sweep.pc = "idle"
    /\ \E force \in BOOLEAN :
        \E b \in {otel_begin(force, include_upstream, otel_info_file,
                             otel_docs_dir, now)} :
            /\ last' = Call("download_otel_docs", force, "none", b.result,
                            b.exc, 0, "not evaluated", "not evaluated")
            /\ IF b.go
               THEN /\ otel_docs_dir' = otel_clear(otel_docs_dir)
                    /\ sweep' = Sweep("enumerate", force, 1, <<>>, 0, 0)
               ELSE UNCHANGED <<otel_docs_dir, sweep>>
    /\ UNCHANGED <<now, include_upstream, context, explainer, fetch, bulk_vars, otel_info_file>>

\* Lines 223-244: the category directory and the listing request.
OtelEnumerate ==
    /\ sweep.pc = "enumerate"
    /\ \E listing \in Listings :
        LET component_type == component_types[sweep.cat]
            names == components_to_try(component_type, listing)
        IN  /\ otel_docs_dir' = make_type_dir(otel_docs_dir, component_type)
            /\ sweep' = IF names # <<>>
                        THEN [sweep EXCEPT !.pc = "fetch", !.names = names, !.idx = 1]
                        ELSE IF sweep.cat < Len(component_types)
                        THEN [sweep EXCEPT !.cat = @ + 1]
                        ELSE [sweep EXCEPT !.pc = "finish"]
            /\ last' = [last EXCEPT !.requests = @ + 1, !.served = listing]
    /\ UNCHANGED <<now, include_upstream, context, explainer, fetch, bulk_vars, otel_info_file>>

\* next_candidate with a 403 answered by a second request for the same
\* candidate.
next_candidate_retries_403(resp, s, files_downloaded) ==
    IF resp = "403" THEN s
    ELSE IF s.idx < Len(s.names)
    THEN [s EXCEPT !.idx = @ + 1, !.files_downloaded = files_downloaded]
    ELSE IF s.cat < Len(component_types)
    THEN [s EXCEPT !.pc = "enumerate", !.cat = @ + 1, !.names = <<>>,
                   !.idx = 0, !.files_downloaded = files_downloaded]
    ELSE [s EXCEPT !.pc = "finish", !.names = <<>>, !.idx = 0,
                   !.files_downloaded = files_downloaded]

\* next_candidate with the category listed again after its last candidate.
next_candidate_relists(resp, s, files_downloaded) ==
    IF s.idx < Len(s.names)
    THEN [s EXCEPT !.idx = @ + 1, !.files_downloaded = files_downloaded]
    ELSE IF s.cat < Len(component_types)
    THEN [s EXCEPT !.pc = "enumerate", !.names = <<>>,
                   !.idx = 0, !.files_downloaded = files_downloaded]
    ELSE [s EXCEPT !.pc = "finish", !.names = <<>>, !.idx = 0,
                   !.files_downloaded = files_downloaded]

\* Lines 223 and 247: where the two for loops stand after the candidate was
\* answered with resp; every branch of lines 255-291 ends the iteration.
next_candidate(resp, s, files_downloaded) ==
    IF s.idx < Len(s.names)
    THEN [s EXCEPT !.idx = @ + 1, !.files_downloaded = files_downloaded]
    ELSE IF s.cat < Len(component_types)
    THEN [s EXCEPT !.pc = "enumerate", !.cat = @ + 1, !.names = <<>>,
                   !.idx = 0, !.files_downloaded = files_downloaded]
    ELSE [s EXCEPT !.pc = "finish", !.names = <<>>, !.idx = 0,
                   !.files_downloaded = files_downloaded]

\* Lines 247-291: the content request for the current candidate.
OtelFetch ==
    /\ sweep.pc = "fetch"
    /\ \E resp \in FileResponses :
        \E r \in {fetch_candidate(resp, component_types[sweep.cat],
                                  sweep.names[sweep.idx],
                                  Acc(otel_docs_dir, sweep.files_downloaded,
                                      last.requests))} :
            /\ otel_docs_dir' = r.dir
            /\ sweep' = next_candidate(resp, sweep, r.files_downloaded)
            /\ last' = [last EXCEPT !.requests = r.requests, !.served = resp]
    /\ UNCHANGED <<now, include_upstream, context, explainer, fetch, bulk_vars, otel_info_file>>

OtelFinish ==
    /\ sweep.pc = "finish"
    /\ \E r \in {otel_finish(sweep.files_downloaded, otel_info_file, now)} :
           /\ otel_info_file' = r.cache
           /\ last' = [last EXCEPT !.result = r.result]
    /\ sweep' = Idle
    /\ UNCHANGED <<now, include_upstream, context, explainer, fetch, bulk_vars, otel_docs_dir>>

(***************************************************************************)
(* get_cache_status, and the record store on its own.                       *)
(***************************************************************************)
\* Lines 569-589: "stale" is computed before "otel_stale"; an exception of
\* the first leaves the second unevaluated.
get_cache_status(f, of, incl, t) ==
    LET stale == _is_cache_stale(f, t)
        otel_stale == _is_otel_cache_stale(of, t)
    IN  IF stale \notin {"True", "False"}
        THEN [result |-> "raised", exc |-> stale, stale |-> stale,
              otel_stale |-> "not evaluated"]
        ELSE IF ~incl
        THEN [result |-> "returned", exc |-> "none", stale |-> stale,
              otel_stale |-> "not evaluated"]
        ELSE IF otel_stale \notin {"True", "False"}
        THEN [result |-> "raised", exc |-> otel_stale, stale |-> stale,
              otel_stale |-> otel_stale]
        ELSE [result |-> "returned", exc |-> "none", stale |-> stale,
              otel_stale |-> otel_stale]

GetCacheStatus ==
    /\ sweep.pc = "idle"
    /\ LET r == get_cache_status(cache_info_file, otel_info_file,
                                 include_upstream, now)
       IN  last' = Call("get_cache_status", FALSE, "none", r.result, r.exc,
                        0, r.stale, r.otel_stale)
    /\ UNCHANGED <<now, include_upstream, context, explainer, fetch, bulk_vars, otel_vars, sweep>>

\* _save_cache_info with the record download_docs builds (lines 106-109).
SaveCacheInfo ==
    /\ cache_info_file' =
         _save_cache_info(Dict("string", isoformat(now), "unknown", 0))
    /\ last' = Call("_save_cache_info", FALSE, "none", "none", "none", 0,
                    "not evaluated", "not evaluated")
    /\ UNCHANGED <<now, include_upstream, context, explainer, fetch, extracted_dir, zip_file, otel_vars, sweep>>

\* _save_otel_cache_info with the record download_otel_docs builds (lines
\* 294-297).
SaveOtelCacheInfo ==
    /\ \E n \in 1..2 :
        otel_info_file' =
            _save_otel_cache_info(Dict("string", isoformat(now), "", n))
    /\ last' = Call("_save_otel_cache_info", FALSE, "none", "none", "none", 0,
                    "not evaluated", "not evaluated")
    /\ UNCHANGED <<now, include_upstream, context, explainer, fetch, bulk_vars, otel_docs_dir, sweep>>

(***************************************************************************)
(* download_docs taken one effect on the file system at a time, so that a   *)
(* reader running beside it sees what is on disk between two effects.       *)
(***************************************************************************)
\* members: what extractall has still to extract; info: the dict handed to
\* _save_cache_info; removed: the files the call's rmtree deleted.
Fetch(pc, force, members, info, removed) ==
    [pc |-> pc, force |-> force, members |-> members, info |-> info,
     removed |-> removed]

FetchIdle == Fetch("idle", FALSE, <<>>, EmptyDict, {})

\* zip_ref.namelist(): the members in archive order.
namelist(zip) == SelectSeq(<<"a.md", "b.md">>, LAMBDA n : n \in zip.files)

\* open(CACHE_INFO_FILE, 'w'): the file is truncated when it is opened.
open_w(f) == RecordFile("empty", "none", <<>>, "", 0)

\* bulk_step_after with the record saved as soon as the archive is on disk.
bulk_step_after_saves_first(pc) ==
    CASE pc = "request" -> "save"
      [] pc = "save" -> "dump"
      [] pc = "dump" -> "rmtree"
      [] pc = "rmtree" -> "mkdir"
      [] pc = "mkdir" -> "open"
      [] pc = "open" -> "extract"
      [] pc = "extract" -> "idle"

\* bulk_step_after with the directory made before the old one is removed.
bulk_step_after_mkdir_first(pc) ==
    CASE pc = "request" -> "mkdir"
      [] pc = "mkdir" -> "rmtree"
      [] pc = "rmtree" -> "open"
      [] pc = "open" -> "extract"
      [] pc = "extract" -> "save"
      [] pc = "save" -> "dump"
      [] pc = "dump" -> "idle"

\* The statement order of the try block of download_docs: request and write
\* of docs.zip (89-94), rmtree (97-99), mkdir (100), ZipFile (102),
\* extractall (103), _save_cache_info (106-109, 56, 57), return True (112).
bulk_step_after(pc) ==
    CASE pc = "request" -> "rmtree"
      [] pc = "rmtree" -> "mkdir"
      [] pc = "mkdir" -> "open"
      [] pc = "open" -> "extract"
      [] pc = "extract" -> "save"
      [] pc = "save" -> "dump"
      [] pc = "dump" -> "idle"

\* Lines 82-83: the guard of download_docs.
bulk_begin(force, f, d, t) ==
    IF force
    THEN [go |-> TRUE, result |-> "none", exc |-> "none"]
    ELSE LET stale == _is_cache_stale(f, t) IN
         IF stale \notin {"True", "False"}
         THEN [go |-> FALSE, result |-> "raised", exc |-> stale]
         ELSE IF stale = "False" /\ d.exists
         THEN [go |-> FALSE, result |-> "False", exc |-> "none"]
         ELSE [go |-> TRUE, result |-> "none", exc |-> "none"]

\* The call moves on to statement pc; at "idle" it returns True.
BulkGoto(pc, members, info, removed) ==
    IF pc = "idle"
    THEN /\ fetch' = Fetch("idle", FALSE, <<>>, EmptyDict, removed)
         /\ last' = Call("download_docs", fetch.force, "ok", "True", "none",
                         1, "not evaluated", "not evaluated")
    ELSE /\ fetch' = Fetch(pc, fetch.force, members, info, removed)
         /\ last' = last

\* The call ends with an exception of the try block.
BulkRaise(served, exc) ==
    /\ fetch' = Fetch("idle", FALSE, <<>>, EmptyDict, fetch.removed)
    /\ last' = Call("download_docs", fetch.force, served, "raised", exc, 1,
                    "not evaluated", "not evaluated")

BulkBegin ==
    /\ fetch.pc = "idle"
    /\ sweep.pc = "idle"
    /\ \E force \in BOOLEAN :
        \E b \in {bulk_begin(force, cache_info_file, extracted_dir, now)} :
            /\ last' = Call("download_docs", force, "none", b.result, b.exc,
                            0, "not evaluated", "not evaluated")
            /\ fetch' = IF b.go
                        THEN Fetch("request", force, <<>>, EmptyDict, {})
                        ELSE FetchIdle
    /\ UNCHANGED <<now, include_upstream, context, explainer, bulk_vars, otel_vars, sweep>>

\* Lines 89-94: the request, and the body written to docs.zip.
BulkRequest ==
    /\ fetch.pc = "request"
    /\ \E resp \in Responses :
        IF resp.status # "ok"
        THEN /\ BulkRaise(resp.status, "Failed to download docs")
             /\ zip_file' = zip_file
        ELSE /\ BulkGoto(bulk_step_after("request"), <<>>, EmptyDict, {})
             /\ zip_file' = resp.content
    /\ UNCHANGED <<now, include_upstream, context, explainer, cache_info_file, extracted_dir,
                   otel_vars, sweep>>

\* Lines 97-99.
BulkRmtree ==
    /\ fetch.pc = "rmtree"
    /\ extracted_dir' = IF extracted_dir.exists THEN rmtree(extracted_dir)
                        ELSE extracted_dir
    /\ BulkGoto(bulk_step_after("rmtree"), <<>>, fetch.info,
                IF extracted_dir.exists THEN extracted_dir.files ELSE {})
    /\ UNCHANGED <<now, include_upstream, context, explainer, cache_info_file, zip_file,
                   otel_vars, sweep>>

\* Line 100.
BulkMkdir ==
    /\ fetch.pc = "mkdir"
    /\ extracted_dir' = mkdir(extracted_dir)
    /\ BulkGoto(bulk_step_after("mkdir"), <<>>, fetch.info, fetch.removed)
    /\ UNCHANGED <<now, include_upstream, context, explainer, cache_info_file, zip_file,
                   otel_vars, sweep>>

\* Line 102: zipfile.ZipFile(zip_path, 'r') raises BadZipFile on bytes that
\* are no archive.
BulkOpen ==
    /\ fetch.pc = "open"
    /\ IF zip_file.kind # "zip"
       THEN BulkRaise("ok", "Downloaded file is not a valid zip archive")
       ELSE BulkGoto(bulk_step_after("open"), namelist(zip_file), fetch.info,
                     fetch.removed)
    /\ UNCHANGED <<now, include_upstream, context, explainer, bulk_vars, otel_vars, sweep>>

\* Line 103: extractall, one member at a time.
BulkExtract ==
    /\ fetch.pc = "extract"
    /\ IF fetch.members = <<>>
       THEN /\ BulkGoto(bulk_step_after("extract"), <<>>, fetch.info,
                        fetch.removed)
            /\ extracted_dir' = extracted_dir
       ELSE IF Head(fetch.members) \in zip_file.readable
       THEN /\ extracted_dir' =
                 Dir(TRUE, extracted_dir.files \cup {Head(fetch.members)})
            /\ BulkGoto("extract", Tail(fetch.members), fetch.info,
                        fetch.removed)
       ELSE /\ BulkRaise("ok", "Error processing docs")
            /\ extracted_dir' = extracted_dir
    /\ UNCHANGED <<now, include_upstream, context, explainer, cache_info_file, zip_file,
                   otel_vars, sweep>>

\* Lines 106-109 and 56: the dict is built and the record file opened.
BulkSave ==
    /\ fetch.pc = "save"
    /\ cache_info_file' = open_w(cache_info_file)
    /\ BulkGoto(bulk_step_after("save"), <<>>,
                Dict("string", isoformat(now), "unknown", 0), fetch.removed)
    /\ UNCHANGED <<now, include_upstream, context, explainer, extracted_dir, zip_file, otel_vars,
                   sweep>>

\* Line 57 and the end of the with block: the record reaches the file.
BulkDump ==
    /\ fetch.pc = "dump"
    /\ cache_info_file' = _save_cache_info(fetch.info)
    /\ BulkGoto(bulk_step_after("dump"), <<>>, EmptyDict, fetch.removed)
    /\ UNCHANGED <<now, include_upstream, context, explainer, extracted_dir, zip_file, otel_vars,
                   sweep>>

\* What a query that lists the corpus finds on disk while a download_docs
\* call is at statement pc: the directory, the archive being extracted, the
\* files the call removed, and what the record says at that moment.
Seen(pc, force, dir, zip, removed, stale) ==
    [pc |-> pc, force |-> force, dir |-> dir, zip |-> zip,
     removed |-> removed, stale |-> stale]

\* Lines 309-317 run by another process: get_edot_collector_docs looks at
\* extracted_dir as it is, with no lock taken by either side.
GetEdotCollectorDocs ==
    /\ sweep.pc = "idle"
    /\ context' = Seen(fetch.pc, fetch.force, extracted_dir, zip_file,
                       fetch.removed,
                       _is_cache_stale(cache_info_file, now))
    /\ UNCHANGED <<now, include_upstream, bulk_vars, otel_vars, sweep, fetch,
                   explainer, last>>

(***************************************************************************)
(* Documents and text.  Text is a sequence of one-character strings; a line *)
(* of a document is its leading text followed by `pad` further characters   *)
(* that match no query (the rest of a long line).                           *)
(***************************************************************************)
\* Op applied to the value of v, which is computed once.
With(v, Op(_)) == CHOOSE r \in {Op(x) : x \in {v}} : TRUE

Min(a, b) == IF a < b THEN a ELSE b

Max(a, b) == IF a > b THEN a ELSE b

\* str.lower() on the letters the documents and queries of the model use.
Lower(c) ==
    CASE c = "O" -> "o"
      [] c = "T" -> "t"
      [] c = "L" -> "l"
      [] c = "P" -> "p"
      [] c = "R" -> "r"
      [] c = "E" -> "e"
      [] c = "D" -> "d"
      [] OTHER -> c

lower(s) == [i \in 1..Len(s) |-> Lower(s[i])]

\* needle in hay
contains(hay, needle) ==
    \E i \in 0..(Len(hay) - Len(needle)) :
        SubSeq(hay, i + 1, i + Len(needle)) = needle

Line(text, pad) == [text |-> text, pad |-> pad]

\* A file of the corpus: the directory it sits in (area), its file name, its
\* kind ("file", or "dir" for a directory whose name ends in .md, which
\* rglob("*.md") lists and read_text cannot read) and its lines.
Doc(area, name, kind, lines) ==
    [area |-> area, name |-> name, kind |-> kind, lines |-> lines]

\* len(line)
line_len(l) == Len(l.text) + l.pad

\* len('\n'.join(lines[a..b]))
RECURSIVE joined_len(_, _, _)
joined_len(lines, a, b) ==
    IF a > b THEN 0
    ELSE IF a = b THEN line_len(lines[a])
    ELSE line_len(lines[a]) + 1 + joined_len(lines, a + 1, b)

\* len(content)
content_len(doc) == joined_len(doc.lines, 1, Len(doc.lines))

\* component_lower in text.lower(), for the text of lines a..b
mentions_lower(lines, a, b, word) ==
    \E i \in a..b : contains(lower(lines[i].text), lower(word))

\* component_name in text, for the text of lines a..b
mentions_exact(lines, a, b, word) ==
    \E i \in a..b : contains(lines[i].text, word)

\* line.startswith('#')
is_heading(l) == Len(l.text) > 0 /\ l.text[1] = "#"

\* The text a block carries: a prefix of a document, a window of its lines
\* or an example taken from it, `chars` characters long.
Text(doc, part, first, count, chars) ==
    [doc |-> doc, part |-> part, first |-> first, count |-> count,
     chars |-> chars]

NoText == Text(<<>>, "none", 0, 0, 0)

\* content[:n]
prefix(doc, n) ==
    Text(doc.name, "prefix", 1, Len(doc.lines), Min(n, content_len(doc)))

(***************************************************************************)
(* get_component_context and its helpers.  `order` lists the files of the   *)
(* corpus in the order the file system enumerates them; each rglob yields   *)
(* the files of its directory in that order.                                *)
(***************************************************************************)
ExactChars == 3000

FallbackChars == 2000

WindowChars == 2000

WindowLines == 50

SubstantialChars == 100

HeadingLines == 10

LeadLines == 3

ExampleChars == 1000

TroubleshootingChars == 1500

ReferenceChars == 2000

MaxBlocks == 3

MaxPerTier == 2

in_area(order, area) == SelectSeq(order, LAMBDA d : d.area = area)

\* Lines 309-348: the main reference document, config/**, components/**,
\* then the files of reference/opentelemetry whose path has "edot" or
\* "collector" in it.
get_edot_collector_docs(d, order) ==
    IF ~d.exists THEN <<>>
    ELSE SelectSeq(in_area(order, "edot"),
                   LAMBDA f : f.name = <<"e", "d", "o", "t", "-", "c", "o", "l", "l", "e", "c", "t", "o", "r", ".", "m", "d">>)
         \o in_area(order, "config")
         \o in_area(order, "components")
         \o SelectSeq(in_area(order, "opentelemetry"),
                      LAMBDA f : \/ contains(lower(f.name), <<"e", "d", "o", "t">>)
                                 \/ contains(lower(f.name), <<"c", "o", "l", "l", "e", "c", "t", "o", "r">>))

\* Lines 350-366.
get_otel_collector_docs(incl, od, order) ==
    IF ~incl \/ ~od.exists THEN <<>> ELSE in_area(order, "otel")

\* tier with the body looked at before the file name.
tier_reads_body_first(doc, component_type, component_name) ==
    IF doc.kind = "file"
       /\ (\/ mentions_lower(doc.lines, 1, Len(doc.lines), component_name)
           \/ mentions_exact(doc.lines, 1, Len(doc.lines), component_name))
    THEN "content"
    ELSE IF \/ contains(lower(doc.name), lower(component_name))
            \/ contains(lower(doc.name), component_name)
    THEN "exact"
    ELSE IF doc.kind # "file" THEN "unread"
    ELSE IF mentions_lower(doc.lines, 1, Len(doc.lines), component_type)
    THEN "type"
    ELSE "none"

\* Lines 408-422: the tier of one document; "unread" is a document whose
\* read_text raised.
tier(doc, component_type, component_name) ==
    IF \/ contains(lower(doc.name), lower(component_name))
       \/ contains(lower(doc.name), component_name)
    THEN "exact"
    ELSE IF doc.kind # "file" THEN "unread"
    ELSE IF \/ mentions_lower(doc.lines, 1, Len(doc.lines), component_name)
            \/ mentions_exact(doc.lines, 1, Len(doc.lines), component_name)
    THEN "content"
    ELSE IF mentions_lower(doc.lines, 1, Len(doc.lines), component_type)
    THEN "type"
    ELSE "none"

\* Lines 479-498: the loop over the lines from line i on; `first` is the
\* line where capturing began (0 while it has not), `start` is section_start
\* (0-based, as in the source), `count` and `chars` are len(relevant_lines)
\* and len('\n'.join(relevant_lines)).
RECURSIVE scan_lines(_, _, _, _, _, _, _)
scan_lines(lines, component_name, i, first, start, count, chars) ==
    IF i > Len(lines) THEN [first |-> first, count |-> count, chars |-> chars]
    ELSE LET hit == \/ contains(lower(lines[i].text), lower(component_name))
                    \/ contains(lines[i].text, component_name)
             start1 == IF hit THEN Max(0, (i - 1) - LeadLines) ELSE start
             first1 == IF hit /\ first = 0 THEN i ELSE first
         IN  IF first1 = 0
             THEN scan_lines(lines, component_name, i + 1, 0, start1, 0, 0)
             ELSE LET count1 == count + 1
                      chars1 == IF count = 0 THEN line_len(lines[i])
                                ELSE chars + 1 + line_len(lines[i])
                  IN  IF count1 > WindowLines \/ chars1 > WindowChars
                      THEN [first |-> first1, count |-> count1, chars |-> chars1]
                      ELSE IF is_heading(lines[i]) /\ (i - 1) > start1 + HeadingLines
                      THEN [first |-> first1, count |-> count1, chars |-> chars1]
                      ELSE scan_lines(lines, component_name, i + 1, first1,
                                      start1, count1, chars1)

\* _extract_relevant_sections with a window of exactly 100 characters kept.
_extract_relevant_sections_keeps_100(doc, component_name) ==
    LET w == scan_lines(doc.lines, component_name, 1, 0, 0, 0, 0) IN
    IF w.chars >= SubstantialChars
    THEN Text(doc.name, "window", w.first, w.count, w.chars)
    ELSE NoText

\* Lines 469-501: NoText stands for the empty string.
_extract_relevant_sections(doc, component_name) ==
    LET w == scan_lines(doc.lines, component_name, 1, 0, 0, 0, 0) IN
    IF w.chars > SubstantialChars
    THEN Text(doc.name, "window", w.first, w.count, w.chars)
    ELSE NoText

\* re.findall(r'```yaml\n(.*?)\n```', content, re.DOTALL) from line i on: a
\* block opens on a line that ends in ```yaml and closes before the next
\* line, at least two lines further, that starts with ```.
\* The grave accent, a character a string of this language cannot hold.
Grave == "grave"

ends_yaml_fence(l) ==
    /\ l.pad = 0
    /\ Len(l.text) >= 7
    /\ SubSeq(l.text, Len(l.text) - 6, Len(l.text)) = <<Grave, Grave, Grave, "y", "a", "m", "l">>

starts_fence(l) ==
    Len(l.text) >= 3 /\ SubSeq(l.text, 1, 3) = <<Grave, Grave, Grave>>

RECURSIVE code_blocks(_, _)
code_blocks(lines, i) ==
    LET opens == {o \in i..Len(lines) : ends_yaml_fence(lines[o])} IN
    IF opens = {} THEN <<>>
    ELSE LET o == CHOOSE x \in opens : \A y \in opens : x <= y
             closes == {c \in (o + 2)..Len(lines) : starts_fence(lines[c])}
         IN  IF closes = {} THEN <<>>
             ELSE LET c == CHOOSE x \in closes : \A y \in closes : x <= y
                  IN  <<[first |-> o + 1, last |-> c - 1]>>
                      \o code_blocks(lines, c + 1)

\* Lines 516-532 for one file of the config directory: the example it
\* contributes, or NoText.
field_example(doc, component_name) ==
    IF doc.kind # "file" THEN NoText
    ELSE IF ~mentions_lower(doc.lines, 1, Len(doc.lines), component_name)
    THEN NoText
    ELSE With(code_blocks(doc.lines, 1), LAMBDA blocks :
         With(SubSeq(blocks, 1, Min(MaxPerTier, Len(blocks))), LAMBDA tried :
         With(SelectSeq(tried,
                  LAMBDA b : mentions_lower(doc.lines, b.first, b.last,
                                            component_name)), LAMBDA hits :
             IF hits = <<>> THEN NoText
             ELSE Text(doc.name, "example", hits[1].first,
                       hits[1].last - hits[1].first + 1,
                       Min(ExampleChars,
                           joined_len(doc.lines, hits[1].first, hits[1].last))))))

\* len("\n\n".join(texts)) where each text is led by a label of `label`
\* characters.
RECURSIVE labelled_len(_, _, _)
labelled_len(texts, i, label) ==
    IF i > Len(texts) THEN 0
    ELSE label + texts[i].chars
         + (IF i < Len(texts) THEN 2 ELSE 0)
         + labelled_len(texts, i + 1, label)

\* Lines 503-534: the examples returned (at most two) and the length of the
\* string that joins them; no example stands for the empty string.
_get_field_context(d, order, component_name) ==
    With(IF d.exists THEN in_area(order, "config") ELSE <<>>, LAMBDA config_files :
    With(SelectSeq([i \in 1..Len(config_files) |->
                       field_example(config_files[i], component_name)],
                   LAMBDA t : t # NoText), LAMBDA found :
    With(SubSeq(found, 1, Min(MaxPerTier, Len(found))), LAMBDA kept :
        [texts |-> kept, chars |-> labelled_len(kept, 1, 23)])))

\* _get_troubleshooting_context with the general document taken whether or
\* not it mentions the component.
_get_troubleshooting_context_any_general(d, order, component_name) ==
    LET files == IF d.exists THEN in_area(order, "troubleshoot") ELSE <<>>
        named == SelectSeq(files,
                   LAMBDA f : /\ contains(lower(f.name), lower(component_name))
                              /\ f.kind = "file")
        general == SelectSeq(files,
                     LAMBDA f : /\ f.name = <<"o", "p", "e", "n", "t", "e", "l", "e", "m", "e", "t", "r", "y", ".", "m", "d">>
                                /\ f.kind = "file")
    IN  IF named # <<>>
        THEN [texts |-> <<prefix(named[1], TroubleshootingChars)>>,
              chars |-> 6 + Len(named[1].name) + 1
                        + Min(TroubleshootingChars, content_len(named[1]))]
        ELSE IF general # <<>>
        THEN [texts |-> <<prefix(general[1], TroubleshootingChars)>>,
              chars |-> 44 + Min(TroubleshootingChars, content_len(general[1]))]
        ELSE [texts |-> <<>>, chars |-> 0]

\* Lines 536-567: the troubleshooting text, or <<>> for the empty string.
_get_troubleshooting_context(d, order, component_name) ==
    LET files == IF d.exists THEN in_area(order, "troubleshoot") ELSE <<>>
        named == SelectSeq(files,
                   LAMBDA f : /\ contains(lower(f.name), lower(component_name))
                              /\ f.kind = "file")
        general == SelectSeq(files,
                     LAMBDA f : /\ f.name = <<"o", "p", "e", "n", "t", "e", "l", "e", "m", "e", "t", "r", "y", ".", "m", "d">>
                                /\ f.kind = "file"
                                /\ mentions_lower(f.lines, 1, Len(f.lines),
                                                  component_name))
    IN  IF named # <<>>
        THEN [texts |-> <<prefix(named[1], TroubleshootingChars)>>,
              chars |-> 6 + Len(named[1].name) + 1
                        + Min(TroubleshootingChars, content_len(named[1]))]
        ELSE IF general # <<>>
        THEN [texts |-> <<prefix(general[1], TroubleshootingChars)>>,
              chars |-> 44 + Min(TroubleshootingChars, content_len(general[1]))]
        ELSE [texts |-> <<>>, chars |-> 0]

\* One element of context_parts: its kind, the texts it carries and the
\* length of the whole "---\n...\n---" string.
Block(kind, texts, chars) == [kind |-> kind, texts |-> texts, chars |-> chars]

\* exact_blocks without the limit of two.
exact_blocks_unlimited(exact_matches) ==
    With(SelectSeq(exact_matches, LAMBDA f : f.kind = "file"), LAMBDA read :
        [i \in 1..Len(read) |->
            Block("exact", <<prefix(read[i], ExactChars)>>,
                  10 + Len(read[i].name) + 1
                  + Min(ExactChars, content_len(read[i])) + 4)])

\* Lines 428-434: the blocks of the first two exact matches that can be read.
exact_blocks(exact_matches) ==
    With(SubSeq(exact_matches, 1, Min(MaxPerTier, Len(exact_matches))), LAMBDA tried :
    With(SelectSeq(tried, LAMBDA f : f.kind = "file"), LAMBDA read :
        [i \in 1..Len(read) |->
            Block("exact", <<prefix(read[i], ExactChars)>>,
                  10 + Len(read[i].name) + 1
                  + Min(ExactChars, content_len(read[i])) + 4)]))

\* Lines 437-444: the blocks of the first two content matches.
content_blocks(content_matches, component_name) ==
    With(SubSeq(content_matches, 1, Min(MaxPerTier, Len(content_matches))), LAMBDA tried :
        [i \in 1..Len(tried) |->
            With(_extract_relevant_sections(tried[i], component_name), LAMBDA sections :
            With(IF sections # NoText THEN sections
                 ELSE prefix(tried[i], FallbackChars), LAMBDA text :
                Block("content", <<text>>,
                      10 + Len(tried[i].name) + 1 + text.chars + 4)))])

\* field_blocks whatever the configuration passed.
field_blocks_ignores_config(parts, d, order, component_name, component_config) ==
    IF Len(parts) < MaxBlocks
    THEN With(_get_field_context(d, order, component_name), LAMBDA field_context :
             IF field_context.texts # <<>>
             THEN <<Block("field", field_context.texts, 28 + field_context.chars + 4)>>
             ELSE <<>>)
    ELSE <<>>

\* Lines 447-450.
field_blocks(parts, d, order, component_name, component_config) ==
    IF component_config = "dict" /\ Len(parts) < MaxBlocks
    THEN With(_get_field_context(d, order, component_name), LAMBDA field_context :
             IF field_context.texts # <<>>
             THEN <<Block("field", field_context.texts, 28 + field_context.chars + 4)>>
             ELSE <<>>)
    ELSE <<>>

\* Lines 453-455.
troubleshooting_blocks(parts, d, order, component_name) ==
    With(_get_troubleshooting_context(d, order, component_name),
         LAMBDA troubleshooting_context :
        IF troubleshooting_context.texts # <<>> /\ Len(parts) < MaxBlocks
        THEN <<Block("troubleshooting", troubleshooting_context.texts,
                     21 + troubleshooting_context.chars + 4)>>
        ELSE <<>>)

\* general_reference with the block added whether or not the document is
\* there.
general_reference_unchecked(parts, d, order) ==
    IF parts # <<>> THEN <<>>
    ELSE <<Block("reference", <<NoText>>, 35 + 4)>>

\* general_reference added whatever was found before.
general_reference_always(parts, d, order) ==
    LET edot_ref ==
            SelectSeq(IF d.exists THEN in_area(order, "edot") ELSE <<>>,
                      LAMBDA f : f.name = <<"e", "d", "o", "t", "-", "c", "o", "l", "l", "e", "c", "t", "o", "r", ".", "m", "d">>)
    IN  IF edot_ref # <<>> /\ edot_ref[1].kind = "file"
        THEN <<Block("reference", <<prefix(edot_ref[1], ReferenceChars)>>,
                     35 + Min(ReferenceChars, content_len(edot_ref[1])) + 4)>>
        ELSE <<>>

\* Lines 458-465: the general reference document when nothing was found.
general_reference(parts, d, order) ==
    IF parts # <<>> THEN <<>>
    ELSE LET edot_ref ==
                 SelectSeq(IF d.exists THEN in_area(order, "edot") ELSE <<>>,
                           LAMBDA f : f.name = <<"e", "d", "o", "t", "-", "c", "o", "l", "l", "e", "c", "t", "o", "r", ".", "m", "d">>)
         IN  IF edot_ref # <<>> /\ edot_ref[1].kind = "file"
             THEN <<Block("reference", <<prefix(edot_ref[1], ReferenceChars)>>,
                          35 + Min(ReferenceChars, content_len(edot_ref[1])) + 4)>>
             ELSE <<>>

\* len("\n\n".join(blocks))
RECURSIVE blocks_len(_, _)
blocks_len(blocks, i) ==
    IF i > Len(blocks) THEN 0
    ELSE blocks[i].chars + (IF i < Len(blocks) THEN 2 ELSE 0)
         + blocks_len(blocks, i + 1)

\* join_context with every block kept.
join_context_all(context_parts) ==
    With(context_parts, LAMBDA kept :
        [blocks |-> kept, chars |-> blocks_len(kept, 1)])

\* Line 467: "\n\n".join(context_parts[:3])
join_context(context_parts) ==
    With(SubSeq(context_parts, 1, Min(MaxBlocks, Len(context_parts))), LAMBDA kept :
        [blocks |-> kept, chars |-> blocks_len(kept, 1)])

\* get_component_context with the upstream documents ahead of the bulk ones.
get_component_context_upstream_first(component_type, component_name, component_config, incl, d, od, order) ==
    With((IF incl THEN get_otel_collector_docs(incl, od, order) ELSE <<>>)
         \o get_edot_collector_docs(d, order),
         LAMBDA docs :
    With(SelectSeq(docs, LAMBDA f :
             tier(f, component_type, component_name) = "exact"),
         LAMBDA exact_matches :
    With(SelectSeq(docs, LAMBDA f :
             tier(f, component_type, component_name) = "content"),
         LAMBDA content_matches :
    With(exact_blocks(exact_matches)
         \o content_blocks(content_matches, component_name),
         LAMBDA parts1 :
    With(parts1 \o field_blocks(parts1, d, order, component_name,
                                component_config),
         LAMBDA parts2 :
    With(parts2 \o troubleshooting_blocks(parts2, d, order, component_name),
         LAMBDA parts3 :
    With(parts3 \o general_reference(parts3, d, order),
         LAMBDA parts4 :
        join_context(parts4))))))))

\* Lines 368-467.  component_config is "None", "empty" (a dict without keys)
\* or "dict".
get_component_context(component_type, component_name, component_config, incl, d, od, order) ==
    With(get_edot_collector_docs(d, order)
         \o (IF incl THEN get_otel_collector_docs(incl, od, order) ELSE <<>>),
         LAMBDA docs :
    With(SelectSeq(docs, LAMBDA f :
             tier(f, component_type, component_name) = "exact"),
         LAMBDA exact_matches :
    With(SelectSeq(docs, LAMBDA f :
             tier(f, component_type, component_name) = "content"),
         LAMBDA content_matches :
    With(exact_blocks(exact_matches)
         \o content_blocks(content_matches, component_name),
         LAMBDA parts1 :
    With(parts1 \o field_blocks(parts1, d, order, component_name,
                                component_config),
         LAMBDA parts2 :
    With(parts2 \o troubleshooting_blocks(parts2, d, order, component_name),
         LAMBDA parts3 :
    With(parts3 \o general_reference(parts3, d, order),
         LAMBDA parts4 :
        join_context(parts4))))))))

(***************************************************************************)
(* The documents the context queries are run against.                       *)
(***************************************************************************)
\* edot/edot-collector.md: the general reference document: a heading and one long line.
MainDoc ==
    Doc("edot", <<"e", "d", "o", "t", "-", "c", "o", "l", "l", "e", "c", "t", "o", "r", ".", "m", "d">>,
        "file",
        <<Line(<<"#", " ", "E", "D", "O", "T">>, 0),
          Line(<<"r", "e", "c", "e", "i", "v", "e", "r">>, 2500)>>)

\* components/otlpreceiver.md: named after the component, longer than an exact block may be.
ExactDoc ==
    Doc("components", <<"o", "t", "l", "p", "r", "e", "c", "e", "i", "v", "e", "r", ".", "m", "d">>,
        "file",
        <<Line(<<"#", " ", "o", "t", "l", "p">>, 0),
          Line(<<"t", "e", "x", "t">>, 3500)>>)

\* components/OTLP-exporter.md: named after the component in upper case.
ExactUpper ==
    Doc("components", <<"O", "T", "L", "P", "-", "e", "x", "p", "o", "r", "t", "e", "r", ".", "m", "d">>,
        "file",
        <<Line(<<"e", "x", "p", "o", "r", "t", "s">>, 40)>>)

\* config/otlp.md: a directory of the config area whose name ends in .md.
DirA ==
    Doc("config", <<"o", "t", "l", "p", ".", "m", "d">>,
        "dir",
        <<Line(<<>>, 0)>>)

\* config/otlp-grpc.md: another such directory.
DirB ==
    Doc("config", <<"o", "t", "l", "p", "-", "g", "r", "p", "c", ".", "m", "d">>,
        "dir",
        <<Line(<<>>, 0)>>)

\* components/general.md: mentions the component on its second line.
General ==
    Doc("components", <<"g", "e", "n", "e", "r", "a", "l", ".", "m", "d">>,
        "file",
        <<Line(<<"i", "n", "t", "r", "o">>, 30),
          Line(<<"s", "e", "e", " ", "o", "t", "l", "p", " ", "h", "e", "r", "e">>, 60),
          Line(<<"m", "o", "r", "e">>, 60),
          Line(<<"#", " ", "n", "e", "x", "t">>, 0)>>)

\* components/table.md: a single long line that mentions the component.
LongLine ==
    Doc("components", <<"t", "a", "b", "l", "e", ".", "m", "d">>,
        "file",
        <<Line(<<"|", " ", "O", "T", "L", "P", " ", "|">>, 20000)>>)

\* components/notes.md: a short document that mentions the component.
Notes ==
    Doc("components", <<"n", "o", "t", "e", "s", ".", "m", "d">>,
        "file",
        <<Line(<<"o", "t", "l", "p">>, 0)>>)

\* config/default-config.md: a configuration reference with a fenced example.
ConfigDoc ==
    Doc("config", <<"d", "e", "f", "a", "u", "l", "t", "-", "c", "o", "n", "f", "i", "g", ".", "m", "d">>,
        "file",
        <<Line(<<"o", "t", "l", "p", " ", "e", "x", "a", "m", "p", "l", "e">>, 0),
          Line(<<Grave, Grave, Grave, "y", "a", "m", "l">>, 0),
          Line(<<"r", "e", "c", "e", "i", "v", "e", "r", "s", ":">>, 0),
          Line(<<" ", " ", "o", "t", "l", "p", ":">>, 1200),
          Line(<<Grave, Grave, Grave>>, 0)>>)

\* troubleshoot/otlp-errors.md: troubleshooting document named after the component.
TroubleDoc ==
    Doc("troubleshoot", <<"o", "t", "l", "p", "-", "e", "r", "r", "o", "r", "s", ".", "m", "d">>,
        "file",
        <<Line(<<"e", "r", "r", "o", "r", "s">>, 1600)>>)

\* troubleshoot/opentelemetry.md: the general troubleshooting document.
TroubleGeneral ==
    Doc("troubleshoot", <<"o", "p", "e", "n", "t", "e", "l", "e", "m", "e", "t", "r", "y", ".", "m", "d">>,
        "file",
        <<Line(<<"o", "t", "l", "p", " ", "t", "i", "m", "e", "o", "u", "t", "s">>, 100)>>)

\* troubleshoot/otlp-timeouts.md: a second troubleshooting document named after the component.
TroubleSecond ==
    Doc("troubleshoot", <<"o", "t", "l", "p", "-", "t", "i", "m", "e", "o", "u", "t", "s", ".", "m", "d">>,
        "file",
        <<Line(<<"t", "i", "m", "e", "o", "u", "t", "s">>, 20)>>)

\* troubleshoot/otlp.md: a directory named like a troubleshooting document.
TroubleUnreadable ==
    Doc("troubleshoot", <<"o", "t", "l", "p", ".", "m", "d">>, "dir", <<>>)

\* opentelemetry/edot-sdk.md: a file of reference/opentelemetry that passes the path filter.
OtelRef ==
    Doc("opentelemetry", <<"e", "d", "o", "t", "-", "s", "d", "k", ".", "m", "d">>,
        "file",
        <<Line(<<"u", "s", "e", "s", " ", "O", "T", "L", "P">>, 10)>>)

\* components/overview.md: mentions the component type and no component.
TypeDoc ==
    Doc("components", <<"o", "v", "e", "r", "v", "i", "e", "w", ".", "m", "d">>,
        "file",
        <<Line(<<"e", "v", "e", "r", "y", " ", "r", "e", "c", "e", "i", "v", "e", "r">>, 10)>>)

\* other/otlp.md: a file of the archive outside the directories that are scanned.
OtherDoc ==
    Doc("other", <<"o", "t", "l", "p", ".", "m", "d">>,
        "file",
        <<Line(<<"o", "t", "l", "p">>, 10)>>)

\* otel/otlpreceiver.md: an upstream README saved by download_otel_docs.
OtelDoc ==
    Doc("otel", <<"o", "t", "l", "p", "r", "e", "c", "e", "i", "v", "e", "r", ".", "m", "d">>,
        "file",
        <<Line(<<"#", " ", "O", "T", "L", "P", " ", "R", "e", "c", "e", "i", "v", "e", "r">>, 0),
          Line(<<"u", "p", "s", "t", "r", "e", "a", "m">>, 500)>>)

\* components/long-list.md: a mention followed by 59 short lines.
ManyLines ==
    Doc("components", <<"l", "o", "n", "g", "-", "l", "i", "s", "t", ".", "m", "d">>,
        "file",
        [i \in 1..60 |-> IF i = 1 THEN Line(<<"o", "t", "l", "p">>, 0) ELSE Line(<<"x">>, 5)])

\* components/sections.md: a mention on the first line, eleven lines of
\* text, a heading on line 13 and a line after it.
Headed ==
    Doc("components", <<"s", "e", "c", "t", "i", "o", "n", "s", ".", "m", "d">>,
        "file",
        [i \in 1..14 |-> IF i = 1 THEN Line(<<"o", "t", "l", "p", " ", "i", "n", "t", "r", "o">>, 10)
                         ELSE IF i = 13 THEN Line(<<"#", " ", "h", "e", "a", "d", "i", "n", "g">>, 0)
                         ELSE Line(<<"t", "e", "x", "t">>, 5)])

\* components/sections-again.md: as Headed, with a second mention on line 9.
Remention ==
    Doc("components", <<"s", "e", "c", "t", "i", "o", "n", "s", "-", "a", "g", "a", "i", "n", ".", "m", "d">>,
        "file",
        [i \in 1..14 |-> IF i \in {1, 9} THEN Line(<<"o", "t", "l", "p", " ", "i", "n", "t", "r", "o">>, 10)
                         ELSE IF i = 13 THEN Line(<<"#", " ", "h", "e", "a", "d", "i", "n", "g">>, 0)
                         ELSE Line(<<"t", "e", "x", "t">>, 5)])

\* components/hundred.md: a line of text, then a line of exactly 100
\* characters that mentions the component.
Hundred ==
    Doc("components", <<"h", "u", "n", "d", "r", "e", "d", ".", "m", "d">>,
        "file",
        <<Line(<<"i", "n", "t", "r", "o">>, 20),
          Line(<<"o", "t", "l", "p">>, 96)>>)

\* components/late.md: a long first line and a mention on the second.
LateMention ==
    Doc("components", <<"l", "a", "t", "e", ".", "m", "d">>,
        "file",
        <<Line(<<"i", "n", "t", "r", "o">>, 2500),
          Line(<<"o", "t", "l", "p">>, 0)>>)

BulkDocs ==
    {MainDoc,
     ExactDoc,
     ExactUpper,
     DirA,
     DirB,
     General,
     LongLine,
     Notes,
     ConfigDoc,
     TroubleDoc,
     TroubleGeneral,
     OtelRef,
     OtherDoc}

\* The extracted directory before any fetch, after a fetch of an empty
\* archive, with one or two documents, and with the larger corpora in which
\* the tiers compete for the three blocks.
BulkCorpora ==
    {NoDir, Dir(TRUE, {})}
    \cup {Dir(TRUE, {a, b}) : a \in BulkDocs, b \in BulkDocs}
    \cup {Dir(TRUE, {ExactDoc, ExactUpper, General, Notes}),
          Dir(TRUE, {DirA, DirB, ExactDoc, General}),
          Dir(TRUE, {ExactDoc, General, ConfigDoc, TroubleDoc}),
          Dir(TRUE, {MainDoc, General, ConfigDoc, TroubleGeneral}),
          Dir(TRUE, {MainDoc, LongLine, Notes, TroubleDoc}),
          Dir(TRUE, {ConfigDoc, General, LongLine, Notes}),
          Dir(TRUE, {ManyLines}), Dir(TRUE, {Headed}), Dir(TRUE, {Remention}),
          Dir(TRUE, {Hundred}), Dir(TRUE, {LateMention}),
          Dir(TRUE, {TroubleDoc, TroubleSecond, TroubleGeneral}),
          Dir(TRUE, {TroubleUnreadable, TroubleSecond}),
          Dir(TRUE, {TroubleUnreadable, TroubleGeneral}),
          Dir(TRUE, {TypeDoc}), Dir(TRUE, {TypeDoc, Notes}),
          Dir(TRUE, {TypeDoc, MainDoc})}

AllTypes == {component_types[i] : i \in 1..Len(component_types)}

\* The upstream directory before any sweep, after a sweep that saved nothing
\* and after one that saved a README.
OtelCorpora ==
    {NoOtelDir, OtelDir(TRUE, AllTypes, {}), OtelDir(TRUE, AllTypes, {OtelDoc})}

\* The two directories together: every bulk corpus without upstream files,
\* and the corpora that hold few or no bulk documents with each upstream
\* directory.
Corpora ==
    {<<d, NoOtelDir>> : d \in BulkCorpora}
    \cup {<<d, od>> : d \in {NoDir, Dir(TRUE, {}), Dir(TRUE, {ExactDoc}),
                              Dir(TRUE, {ExactDoc, ExactUpper}),
                              Dir(TRUE, {General, Notes}),
                              Dir(TRUE, {MainDoc, LongLine, Notes, TroubleDoc})},
                      od \in OtelCorpora}
    \cup {<<Dir(TRUE, {TroubleDoc, TroubleSecond}),
            OtelDir(TRUE, AllTypes, {OtelDoc})>>}

ComponentNames == {<<"o", "t", "l", "p">>, <<"O", "T", "L", "P">>, <<"b", "a", "t", "c", "h">>}

ComponentConfigs == {"None", "empty", "dict"}

\* Every order in which the file system can enumerate a set of files.
RECURSIVE listings(_)
listings(files) ==
    IF files = {} THEN {<<>>}
    ELSE UNION {{<<f>> \o rest : rest \in listings(files \ {f})} : f \in files}

\* The enumerations of a corpus, directory by directory.
ScanOrders(files) ==
    LET of(area) == listings({f \in files : f.area = area}) IN
    {a \o b \o c \o e \o g \o h \o k :
        a \in of("edot"), b \in of("config"), c \in of("components"),
        e \in of("opentelemetry"), g \in of("troubleshoot"),
        h \in of("other"), k \in of("otel")}

\* A get_component_context call: its arguments, the enumeration order it
\* met and the string it returned.
Context(component_name, component_config, order, result) ==
    [component_name |-> component_name, component_config |-> component_config,
     order |-> order, result |-> result]

NoContext == Context(<<>>, "None", <<>>, [blocks |-> <<>>, chars |-> 0])

GetComponentContext ==
    /\ sweep.pc = "idle"
    /\ fetch.pc = "idle"
    /\ \E component_name \in ComponentNames,
          component_config \in ComponentConfigs,
          order \in ScanOrders(extracted_dir.files \cup otel_docs_dir.files) :
        \E r \in {get_component_context(<<"r", "e", "c", "e", "i", "v", "e", "r">>, component_name,
                                        component_config, include_upstream,
                                        extracted_dir, otel_docs_dir, order)} :
            context' = Context(component_name, component_config, order, r)
    /\ UNCHANGED <<now, include_upstream, bulk_vars, otel_vars, sweep, fetch,
                   explainer, last>>

(***************************************************************************)
(* The explainer (explainer.py): OllamaExplainer.__init__ with _init_docs,  *)
(* and explain_component with _create_prompt.                               *)
(***************************************************************************)
\* What the explainer's set-up left behind: the flag, whether a manager was
\* made, the calls it made on the manager and the exception it swallowed.
Setup(use_docs, docs_manager, calls, caught, exc, bulk, otel) ==
    [use_docs |-> use_docs, docs_manager |-> docs_manager, calls |-> calls,
     caught |-> caught, exc |-> exc, bulk |-> bulk, otel |-> otel]

\* _init_docs with the flag left on after a failed download.
_init_docs_keeps_flag(use_docs, resp, env, f, d, z, of, od, t) ==
    LET here == Outcome(f, d, z, "none", "none", 0)
        there == OtelOutcome(of, od, "none", "none", 0)
    IN  IF ~use_docs
        THEN Setup(FALSE, FALSE, <<>>, "none", "none", here, there)
        ELSE LET b == download_docs(FALSE, resp, f, d, z, t) IN
             IF b.result = "raised"
             THEN Setup(TRUE, TRUE, <<"download_docs">>, b.exc, "none", b, there)
             ELSE LET o == download_otel_docs(FALSE, env, TRUE, of, od, t) IN
                  Setup(TRUE, TRUE, <<"download_docs", "download_otel_docs">>,
                        IF o.result = "raised" THEN o.exc ELSE "none", "none", b, o)

\* Lines 16-34.  The manager is made with include_upstream=True; the two
\* downloads run unforced inside one try, and any Exception turns the flag
\* off.
_init_docs(use_docs, resp, env, f, d, z, of, od, t) ==
    LET here == Outcome(f, d, z, "none", "none", 0)
        there == OtelOutcome(of, od, "none", "none", 0)
    IN  IF ~use_docs
        THEN Setup(FALSE, FALSE, <<>>, "none", "none", here, there)
        ELSE LET b == download_docs(FALSE, resp, f, d, z, t) IN
             IF b.result = "raised"
             THEN Setup(FALSE, TRUE, <<"download_docs">>, b.exc, "none", b, there)
             ELSE LET o == download_otel_docs(FALSE, env, TRUE, of, od, t) IN
                  Setup(o.result # "raised", TRUE,
                        <<"download_docs", "download_otel_docs">>,
                        IF o.result = "raised" THEN o.exc ELSE "none", "none", b, o)

\* Lines 141-150: the connection test against /api/tags.
OllamaResponses == {"200", "non200", "ConnectionError"}

test_connection(ollama) ==
    CASE ollama = "200" -> "none"
      [] ollama = "non200" -> "Ollama not responding"
      [] OTHER -> "Cannot connect to Ollama"

\* The YAML text handed to explain_component, by what yaml.safe_load makes
\* of it: an error, a scalar, or a mapping of top-level keys to either a
\* scalar or the sequence of the values of a nested mapping.
Yaml(kind, sections) == [kind |-> kind, sections |-> sections]

Section(key, values) == [key |-> key, values |-> values]

SectionKeys == <<"receivers", "processors", "exporters", "extensions", "service">>

\* Lines 47-57: the first value of the first of the five sections that is a
\* mapping, None when that mapping is empty or there is no such section.
RECURSIVE first_section(_, _)
first_section(parsed, k) ==
    IF k > Len(SectionKeys) THEN "None"
    ELSE LET found == SelectSeq(parsed.sections,
                                LAMBDA sec : sec.key = SectionKeys[k] /\ sec.values # "scalar")
         IN  IF found # <<>>
             THEN IF found[1].values # <<>> THEN found[1].values[1] ELSE "None"
             ELSE first_section(parsed, k + 1)

component_config_dict(component_config) ==
    IF component_config.kind # "mapping" THEN "None"
    ELSE first_section(component_config, 1)

\* The prompt by its variable part: the documentation context it carries,
\* the length of the paragraph that holds it, and how the retrieval went.
Prompt(component_name, component_config, retrieval, docs_context, chars) ==
    [component_name |-> component_name, component_config |-> component_config,
     retrieval |-> retrieval, docs_context |-> docs_context, chars |-> chars]

NoResult == [blocks |-> <<>>, chars |-> 0]

NoPrompt == Prompt(<<>>, Yaml("scalar", <<>>), "none", NoResult, 0)

\* Lines 41-71.  `scan` is what enumerating the directories does: the rglob
\* calls of lines 332-364 are outside every try of the manager, so an
\* OSError there leaves get_component_context as an exception.
_create_prompt(use_docs, docs_manager, component_type, component_name, component_config, scan, incl, d, od, order) ==
    IF ~(use_docs /\ docs_manager)
    THEN Prompt(component_name, component_config, "not attempted", NoResult, 0)
    ELSE IF scan # "ok"
    THEN Prompt(component_name, component_config, scan, NoResult, 0)
    ELSE With(get_component_context(component_type, component_name,
                                    component_config_dict(component_config),
                                    incl, d, od, order),
              LAMBDA found :
                  IF found.chars > 0
                  THEN Prompt(component_name, component_config, "returned",
                              found, 34 + found.chars + 2)
                  ELSE Prompt(component_name, component_config, "returned",
                              NoResult, 0))

\* The explainer object: whether the constructor returned or raised, the
\* fields _init_docs set, and the latest explain_component call.
Explainer(state, exc, use_docs, docs_manager, calls, caught, prompt, result) ==
    [state |-> state, exc |-> exc, use_docs |-> use_docs,
     docs_manager |-> docs_manager, calls |-> calls, caught |-> caught,
     prompt |-> prompt, result |-> result]

NoExplainer == Explainer("none", "none", FALSE, FALSE, <<>>, "none", NoPrompt, "none")

\* The archives the documentation URL serves in a session: none, bytes that
\* are no archive, an archive of two documents, the same archive with a
\* member that does not extract.
ExplainerResponses ==
    {Response("transport_error", NoContent),
     Response("ok", Content("notzip", {}, {})),
     Response("ok", Content("zip", {ExactDoc, General}, {ExactDoc, General})),
     Response("ok", Content("zip", {ExactDoc, General}, {ExactDoc}))}

ExplainerEnvs ==
    {env \in SweepEnvs : env.rest = "403" /\ env.first # "transport_error"}

\* OllamaExplainer.__init__ (lines 119-150).
NewExplainer ==
    /\ explainer.state = "none"
    /\ sweep.pc = "idle"
    /\ fetch.pc = "idle"
    /\ \E use_docs \in BOOLEAN, resp \in ExplainerResponses,
          env \in ExplainerEnvs, ollama \in OllamaResponses :
        \E r \in {_init_docs(use_docs, resp, env, cache_info_file,
                             extracted_dir, zip_file, otel_info_file,
                             otel_docs_dir, now)} :
            /\ include_upstream' = (IF use_docs THEN TRUE ELSE include_upstream)
            /\ cache_info_file' = r.bulk.cache
            /\ extracted_dir' = r.bulk.dir
            /\ zip_file' = r.bulk.zip
            /\ otel_info_file' = r.otel.cache
            /\ otel_docs_dir' = r.otel.dir
            /\ explainer' =
                 IF r.exc # "none"
                 THEN Explainer("raised", r.exc, r.use_docs, r.docs_manager,
                                r.calls, r.caught, NoPrompt, "none")
                 ELSE Explainer(IF ollama = "200" THEN "constructed" ELSE "raised",
                                test_connection(ollama), r.use_docs,
                                r.docs_manager, r.calls, r.caught, NoPrompt,
                                "none")
    /\ UNCHANGED <<now, sweep, fetch, context, last>>

\* refresh_docs with the upstream download outside the try that holds the
\* bulk one.
refresh_docs_goes_on(resp, env, incl, f, d, z, of, od, t) ==
    LET b == download_docs(TRUE, resp, f, d, z, t)
        o == download_otel_docs(TRUE, env, incl, of, od, t)
    IN  IF incl
        THEN Setup(b.result # "raised" /\ o.result # "raised", TRUE,
                   <<"download_docs", "download_otel_docs">>,
                   IF b.result = "raised" THEN b.exc
                   ELSE IF o.result = "raised" THEN o.exc ELSE "none",
                   "none", b, o)
        ELSE Setup(b.result # "raised", TRUE, <<"download_docs">>,
                   IF b.result = "raised" THEN b.exc ELSE "none", "none", b,
                   OtelOutcome(of, od, "none", "none", 0))

\* app.py lines 112-121, the Refresh Docs button: both downloads forced,
\* inside one try, the upstream one under the manager's flag; use_docs here
\* is whether the page reports "Documentation refreshed!".
refresh_docs(resp, env, incl, f, d, z, of, od, t) ==
    LET b == download_docs(TRUE, resp, f, d, z, t)
        there == OtelOutcome(of, od, "none", "none", 0)
    IN  IF b.result = "raised"
        THEN Setup(FALSE, TRUE, <<"download_docs">>, b.exc, "none", b, there)
        ELSE IF ~incl
        THEN Setup(TRUE, TRUE, <<"download_docs">>, "none", "none", b, there)
        ELSE LET o == download_otel_docs(TRUE, env, incl, of, od, t) IN
             Setup(o.result # "raised", TRUE,
                   <<"download_docs", "download_otel_docs">>,
                   IF o.result = "raised" THEN o.exc ELSE "none", "none", b, o)

\* The button pressed on the page, whose manager is made at app.py line 90
\* with include_upstream=True.  The page makes an explainer only inside
\* explain_config (app.py line 38), in a later run of the script.
RefreshDocs ==
    /\ explainer.state = "none"
    /\ sweep.pc = "idle"
    /\ fetch.pc = "idle"
    /\ \E resp \in ExplainerResponses, env \in ExplainerEnvs :
        \E r \in {refresh_docs(resp, env, TRUE, cache_info_file,
                               extracted_dir, zip_file, otel_info_file,
                               otel_docs_dir, now)} :
            /\ include_upstream' = TRUE
            /\ cache_info_file' = r.bulk.cache
            /\ extracted_dir' = r.bulk.dir
            /\ zip_file' = r.bulk.zip
            /\ otel_info_file' = r.otel.cache
            /\ otel_docs_dir' = r.otel.dir
            /\ last' = Call("refresh_docs", TRUE, resp.status,
                            IF r.use_docs THEN "Documentation refreshed!"
                            ELSE "Error refreshing docs",
                            r.caught, r.bulk.requests + r.otel.requests,
                            "not evaluated", "not evaluated")
    /\ UNCHANGED <<now, sweep, fetch, context, explainer>>

\* The README a sweep saved as <category>/<name>.md.
Spell(name) ==
    CASE name = "otlpreceiver" -> <<"o", "t", "l", "p", "r", "e", "c", "e", "i", "v", "e", "r">>
      [] name = "prometheusreceiver" -> <<"p", "r", "o", "m", "e", "t", "h", "e", "u", "s", "r", "e", "c", "e", "i", "v", "e", "r">>
      [] name = "batchprocessor" -> <<"b", "a", "t", "c", "h", "p", "r", "o", "c", "e", "s", "s", "o", "r">>
      [] name = "otlpexporter" -> <<"o", "t", "l", "p", "e", "x", "p", "o", "r", "t", "e", "r">>
      [] name = "healthcheckextension" -> <<"h", "e", "a", "l", "t", "h", "c", "h", "e", "c", "k", "e", "x", "t", "e", "n", "s", "i", "o", "n">>
      [] OTHER -> <<"n", "e", "w", "c", "o", "m", "p", "o", "n", "e", "n", "t">>

readme(file) ==
    Doc("otel", Spell(file[2]) \o <<".", "m", "d">>, "file",
        <<Line(<<"#", " ">> \o Spell(file[2]), 0),
          Line(<<"u", "p", "s", "t", "r", "e", "a", "m">>, 500)>>)

readmes(od) == OtelDir(od.exists, od.types, {readme(file) : file \in od.files})

\* One enumeration of a set of files and its reverse.
RECURSIVE a_listing(_)
a_listing(files) ==
    IF files = {} THEN <<>>
    ELSE LET f == CHOOSE g \in files : TRUE IN <<f>> \o a_listing(files \ {f})

TwoOrders(files) ==
    LET l == a_listing(files) IN
    {l, [i \in 1..Len(l) |-> l[Len(l) + 1 - i]]}

\* The component configurations of a session: text that is no YAML, a
\* scalar, a component with fields, a component without a body, an empty
\* section, and a section the loop of line 52 does not know.
ComponentYamls ==
    {Yaml("error", <<>>),
     Yaml("scalar", <<>>),
     Yaml("mapping", <<Section("receivers", <<"dict">>)>>),
     Yaml("mapping", <<Section("receivers", <<"None">>)>>),
     Yaml("mapping", <<Section("receivers", "scalar"), Section("exporters", <<"dict">>)>>),
     Yaml("mapping", <<Section("connectors", <<"dict">>)>>)}

\* Line 168: the request to /api/generate.
explain_result(post) ==
    IF post = "ok" THEN "explanation"
    ELSE "Failed to generate explanation with Ollama"

\* explain_component (lines 152-177).
ExplainComponent ==
    /\ explainer.state = "constructed"
    /\ \E component_name \in {<<"o", "t", "l", "p">>, <<"b", "a", "t", "c", "h">>},
          component_config \in ComponentYamls,
          scan \in {"ok", "OSError"},
          post \in {"ok", "RequestException"} :
        \E upstream \in {readmes(otel_docs_dir)} :
        \E order \in TwoOrders(extracted_dir.files \cup upstream.files) :
        \E p \in {_create_prompt(explainer.use_docs, explainer.docs_manager,
                                 <<"r", "e", "c", "e", "i", "v", "e", "r">>,
                                 component_name, component_config, scan,
                                 include_upstream, extracted_dir, upstream,
                                 order)} :
            explainer' = [explainer EXCEPT !.prompt = p,
                                           !.result = explain_result(post)]
    /\ UNCHANGED <<now, include_upstream, bulk_vars, otel_vars, sweep, fetch,
                   context, last>>

(***************************************************************************)
(* Initial states and specifications.                                       *)
(***************************************************************************)
\* Every shape a record file can have on disk.
BadTexts == {<<"n", "o", "w">>, <<"0", "7", "T", "2", "4">>}

RecordContents ==
    {AbsentFile,
     RecordFile("empty", "none", <<>>, "", 0),
     RecordFile("notjson", "none", <<>>, "", 0),
     RecordFile("nonobject", "none", <<>>, "", 0),
     RecordFile("object", "none", <<>>, "", 0),
     RecordFile("object", "falsy", <<>>, "", 0),
     RecordFile("object", "nonstring", <<>>, "", 0)}
    \cup {RecordFile("object", "string", s, "", 0) : s \in BadTexts}
    \cup {RecordFile("object", "string", isoformat(T), "", 0) : T \in Times}

\* The records a fetch starts from: none, a damaged one, one a fetch wrote.
InitRecords ==
    {AbsentFile,
     RecordFile("notjson", "none", <<>>, "", 0),
     RecordFile("nonobject", "none", <<>>, "", 0),
     RecordFile("object", "string", isoformat(0), "unknown", 0)}

InitOtelRecords ==
    {AbsentFile,
     RecordFile("notjson", "none", <<>>, "", 0),
     RecordFile("nonobject", "none", <<>>, "", 0),
     RecordFile("object", "string", isoformat(0), "", 1)}

InitOtelDirs ==
    {NoOtelDir,
     OtelDir(TRUE, {component_types[i] : i \in 1..Len(component_types)},
             {<<"receiver", "otlpreceiver">>})}

Init ==
    /\ now = 0
    /\ include_upstream \in BOOLEAN
    /\ cache_info_file \in InitRecords
    /\ extracted_dir \in {NoDir, Dir(TRUE, DocNames)}
    /\ zip_file = NoContent
    /\ otel_info_file \in InitOtelRecords
    /\ otel_docs_dir \in InitOtelDirs
    /\ sweep = Idle
    /\ fetch = FetchIdle
    /\ context = NoContext
    /\ explainer = NoExplainer
    /\ last = NoCall

Next ==
    \/ Tick
    \/ DownloadDocs
    \/ DownloadOtelDocs

Spec == Init /\ [][Next]_vars

InitSweep ==
    /\ now = 0
    /\ include_upstream \in BOOLEAN
    /\ cache_info_file = AbsentFile
    /\ extracted_dir = NoDir
    /\ zip_file = NoContent
    /\ otel_info_file \in InitOtelRecords
    /\ otel_docs_dir \in InitOtelDirs
    /\ sweep = Idle
    /\ fetch = FetchIdle
    /\ context = NoContext
    /\ explainer = NoExplainer
    /\ last = NoCall

NextSweep ==
    \/ Tick
    \/ OtelBegin
    \/ OtelEnumerate
    \/ OtelFetch
    \/ OtelFinish

SpecSweep == InitSweep /\ [][NextSweep]_vars

\* The sweep is straight-line code whose every request has timeout=30
\* (lines 232 and 255) and whose sleeps are finite (lines 274 and 281): a
\* statement that can run does run.
SpecSweepFair ==
    /\ SpecSweep
    /\ WF_vars(OtelEnumerate)
    /\ WF_vars(OtelFetch)
    /\ WF_vars(OtelFinish)

InitBulk ==
    /\ now = 0
    /\ include_upstream \in BOOLEAN
    /\ cache_info_file \in InitRecords
    /\ extracted_dir \in {NoDir, Dir(TRUE, DocNames)}
    /\ zip_file = NoContent
    /\ otel_info_file = AbsentFile
    /\ otel_docs_dir = NoOtelDir
    /\ sweep = Idle
    /\ fetch = FetchIdle
    /\ context = NoContext
    /\ explainer = NoExplainer
    /\ last = NoCall

\* A download_docs call in steps, with get_cache_status as the reader that
\* may run at any point of it.
NextBulk ==
    \/ Tick
    \/ GetCacheStatus
    \/ BulkBegin
    \/ BulkRequest
    \/ BulkRmtree
    \/ BulkMkdir
    \/ BulkOpen
    \/ BulkExtract
    \/ BulkSave
    \/ BulkDump

SpecBulk == InitBulk /\ [][NextBulk]_vars

\* download_docs calls in steps at a fixed time, with a query that lists the
\* corpus free to run between any two steps.
InitRace ==
    /\ now \in Times
    /\ include_upstream = TRUE
    /\ cache_info_file \in InitRecords
    /\ extracted_dir \in {NoDir, Dir(TRUE, DocNames)}
    /\ zip_file = NoContent
    /\ otel_info_file = AbsentFile
    /\ otel_docs_dir = NoOtelDir
    /\ sweep = Idle
    /\ fetch = FetchIdle
    /\ context = NoContext
    /\ explainer = NoExplainer
    /\ last = NoCall

NextRace ==
    \/ GetEdotCollectorDocs
    \/ BulkBegin
    \/ BulkRequest
    \/ BulkRmtree
    \/ BulkMkdir
    \/ BulkOpen
    \/ BulkExtract
    \/ BulkSave
    \/ BulkDump

SpecRace == InitRace /\ [][NextRace]_vars

InitContext ==
    /\ now = 0
    /\ include_upstream \in BOOLEAN
    /\ cache_info_file = AbsentFile
    /\ \E c \in Corpora : extracted_dir = c[1] /\ otel_docs_dir = c[2]
    /\ zip_file = NoContent
    /\ otel_info_file = AbsentFile
    /\ sweep = Idle
    /\ fetch = FetchIdle
    /\ context = NoContext
    /\ explainer = NoExplainer
    /\ last = NoCall

NextContext == GetComponentContext

SpecContext == InitContext /\ [][NextContext]_vars

\* A session starts with or without a corpus and a record of each source,
\* at the time the record was written or after it expired.
InitExplainer ==
    /\ now \in {0, ExpiryHours + 1}
    /\ include_upstream = TRUE
    /\ cache_info_file \in {AbsentFile,
                            RecordFile("nonobject", "none", <<>>, "", 0),
                            RecordFile("object", "string", isoformat(0), "unknown", 0)}
    /\ extracted_dir \in {NoDir, Dir(TRUE, {ExactDoc, General})}
    /\ zip_file = NoContent
    /\ otel_info_file \in {AbsentFile,
                           RecordFile("nonobject", "none", <<>>, "", 0),
                           RecordFile("object", "string", isoformat(0), "", 1)}
    /\ otel_docs_dir \in InitOtelDirs
    /\ sweep = Idle
    /\ fetch = FetchIdle
    /\ context = NoContext
    /\ explainer = NoExplainer
    /\ last = NoCall

NextExplainer ==
    \/ NewExplainer
    \/ ExplainComponent

SpecExplainer == InitExplainer /\ [][NextExplainer]_vars

\* The two callers of the downloads: the page's button, pressed any number
\* of times, and the set-up of the explainer of a request.
NextRefresh ==
    \/ RefreshDocs
    \/ NewExplainer

SpecRefresh == InitExplainer /\ [][NextRefresh]_vars

InitCache ==
    /\ now \in Times
    /\ include_upstream \in BOOLEAN
    /\ cache_info_file \in RecordContents
    /\ extracted_dir = NoDir
    /\ zip_file = NoContent
    /\ otel_info_file \in RecordContents
    /\ otel_docs_dir = NoOtelDir
    /\ sweep = Idle
    /\ fetch = FetchIdle
    /\ context = NoContext
    /\ explainer = NoExplainer
    /\ last = NoCall

NextCache ==
    \/ Tick
    \/ GetCacheStatus
    \/ SaveCacheInfo
    \/ SaveOtelCacheInfo

SpecCache == InitCache /\ [][NextCache]_vars

(***************************************************************************)
(* Properties.                                                              *)
(***************************************************************************)
Bool(b) == IF b THEN "True" ELSE "False"

\* The record holds a timestamp written at hour T.
StampedAt(f, T) == f.form = "object" /\ f.lu = "string" /\ f.text = isoformat(T)

\* The staleness rule of the specification: a record is not stale when it
\* carries a timestamp that is at most seven days old.
NotStale(f, t) == \E T \in Times : StampedAt(f, T) /\ t <= T + ExpiryHours

\* The archive download_docs has just put on disk does not extract in full.
BadArchive(z) == z.kind # "zip" \/ z.readable # z.files

\* C1: when the downloaded bulk content is not a valid archive or its
\* extraction fails, download_docs raises and the extracted corpus and the
\* cache record are exactly as before the call.
C1_BadArchiveLeavesCorpusAndRecord ==
    [][(/\ last'.op = "download_docs"
        /\ last'.served = "ok"
        /\ BadArchive(zip_file')
        /\ extracted_dir.exists)
       => (/\ last'.result = "raised"
           /\ extracted_dir' = extracted_dir
           /\ cache_info_file' = cache_info_file)]_vars

\* C2: when the request for the bulk archive fails (transport error, timeout
\* or error status), download_docs raises and neither the extracted corpus
\* nor the cache record is modified.
C2_FailedRequestLeavesCorpusAndRecord ==
    [][(/\ last'.op = "download_docs"
        /\ last'.served \in {"transport_error", "http_error"})
       => (/\ last'.result = "raised"
           /\ last'.exc = "Failed to download docs"
           /\ extracted_dir' = extracted_dir
           /\ cache_info_file' = cache_info_file)]_vars

\* A failed request has hit a populated, recorded cache.
C2_Witness ==
    /\ last.op = "download_docs"
    /\ last.served = "http_error"
    /\ last.result = "raised"
    /\ extracted_dir = Dir(TRUE, DocNames)
    /\ StampedAt(cache_info_file, 0)

\* C3: a cache record changes only in a fetch that succeeded: a bulk fetch
\* that returned true with the archive extracted in full, a per-component
\* fetch that returned true with at least one file downloaded; a fetch that
\* raises or downloads nothing leaves the record as it was.
C3_RecordChangesOnlyOnSuccess ==
    [][/\ cache_info_file' # cache_info_file
          => /\ last'.op = "download_docs"
             /\ last'.result = "True"
             /\ ~BadArchive(zip_file')
             /\ extracted_dir' = Dir(TRUE, zip_file'.files)
             /\ StampedAt(cache_info_file', now)
       /\ otel_info_file' # otel_info_file
          => /\ last'.op = "download_otel_docs"
             /\ last'.result = "True"
             /\ otel_docs_dir'.files # {}
             /\ otel_info_file'.files_downloaded
                  = Cardinality(otel_docs_dir'.files)
             /\ StampedAt(otel_info_file', now)]_vars

\* Both records have been rewritten by fetches that succeeded.
C3_Witness ==
    /\ last.op = "download_otel_docs"
    /\ last.result = "True"
    /\ StampedAt(otel_info_file, ExpiryHours)
    /\ StampedAt(cache_info_file, ExpiryHours - 1)

\* C4: a per-component fetch that is not skipped returns true and writes the
\* record if and only if at least one file was downloaded; with none it
\* returns false, raises nothing and leaves the record untouched.
C4_RecordIffFileDownloaded ==
    [][(sweep.pc = "finish" /\ sweep'.pc = "idle")
       => IF otel_docs_dir.files # {}
          THEN /\ last'.result = "True"
               /\ StampedAt(otel_info_file', now)
               /\ otel_info_file'.files_downloaded
                    = Cardinality(otel_docs_dir.files)
          ELSE /\ last'.result = "False"
               /\ last'.exc = "none"
               /\ otel_info_file' = otel_info_file]_vars

\* A sweep over a recorded cache has ended with no file downloaded.
C4_Witness ==
    /\ last.op = "download_otel_docs"
    /\ sweep.pc = "idle"
    /\ last.requests > 0
    /\ last.result = "False"
    /\ otel_docs_dir.files = {}
    /\ StampedAt(otel_info_file, 0)

\* C5: a failed fetch preserves the last known-good corpus of its source; in
\* particular a per-component sweep that downloads no file leaves the
\* documents downloaded before on disk.
C5_FailedFetchPreservesCorpus ==
    [][/\ (last'.op = "download_docs" /\ last'.result = "raised"
           /\ extracted_dir.files # {})
          => extracted_dir' = extracted_dir
       /\ (last'.op = "download_otel_docs" /\ last'.result # "True"
           /\ otel_docs_dir.files # {})
          => otel_docs_dir' = otel_docs_dir]_vars

\* C6: a fetch with force=false on a source whose record is not stale and
\* whose corpus directory exists returns false, issues no request and leaves
\* corpus and record unchanged.
C6_FreshCacheIsSkipped ==
    [][/\ (/\ last'.op = "download_docs"
           /\ ~last'.force
           /\ NotStale(cache_info_file, now)
           /\ extracted_dir.exists)
          => /\ last'.result = "False"
             /\ last'.requests = 0
             /\ UNCHANGED bulk_vars
       /\ (/\ last'.op = "download_otel_docs"
           /\ ~last'.force
           /\ NotStale(otel_info_file, now)
           /\ otel_docs_dir.exists)
          => /\ last'.result = "False"
             /\ last'.requests = 0
             /\ UNCHANGED otel_vars]_vars

\* A record exactly seven days old has let a fetch skip.
C6_Witness ==
    /\ last.op = "download_docs"
    /\ ~last.force
    /\ last.result = "False"
    /\ now = ExpiryHours
    /\ StampedAt(cache_info_file, 0)
    /\ extracted_dir = Dir(TRUE, DocNames)

\* What the staleness check of the code does on a record it cannot use: a
\* JSON value that is no object, or a truthy last_updated that is no
\* string, makes it raise.
CheckRaises(f) ==
    f.form = "nonobject" \/ (f.form = "object" /\ f.lu = "nonstring")

\* C7: a fetch attempts a download whenever force=true, whatever the cache
\* state; with force=false it attempts one exactly when the record is stale
\* or the corpus directory is missing.
C7_ForceAlwaysDownloads ==
    [][/\ last'.op = "download_docs"
          => (last'.requests > 0
                <=> (\/ last'.force
                     \/ ~NotStale(cache_info_file, now)
                     \/ ~extracted_dir.exists))
       /\ last'.op = "download_otel_docs"
          => (last'.requests > 0
                <=> (\/ last'.force
                     \/ ~NotStale(otel_info_file, now)
                     \/ ~otel_docs_dir.exists))]_vars

\* C7 as amended: the per-component source downloads only when upstream is
\* enabled, and a staleness check that raises ends an unforced fetch before
\* any request.
C7_ForceDownloadsWhenEnabled ==
    [][/\ last'.op = "download_docs"
          => (last'.requests > 0
                <=> (\/ last'.force
                     \/ /\ ~CheckRaises(cache_info_file)
                        /\ \/ ~NotStale(cache_info_file, now)
                           \/ ~extracted_dir.exists))
       /\ last'.op = "download_otel_docs"
          => (last'.requests > 0
                <=> (/\ include_upstream
                     /\ \/ last'.force
                        \/ /\ ~CheckRaises(otel_info_file)
                           /\ \/ ~NotStale(otel_info_file, now)
                              \/ ~otel_docs_dir.exists))]_vars

\* A forced per-component fetch has downloaded over a fresh, populated cache.
C7_Witness ==
    /\ last.op = "download_otel_docs"
    /\ last.force
    /\ last.requests > 0
    /\ now = 0
    /\ StampedAt(otel_info_file, 0)
    /\ StampedAt(cache_info_file, 0)
    /\ extracted_dir = Dir(TRUE, DocNames)

\* The record is one the staleness check cannot read a timestamp from:
\* absent, empty, not JSON, not an object, without last_updated, or with a
\* last_updated that is no parsable timestamp or no string.
Unusable(f) ==
    \/ f.form # "object"
    \/ f.lu # "string"
    \/ f.text \in BadTexts

\* C8: for a record with a well-formed timestamp the staleness predicate is
\* true exactly when now > last_updated + 7 days (a record exactly 7 days old
\* is not stale); an absent record is stale; both sources use this rule.
C8_StaleAfterSevenDays ==
    last.op = "get_cache_status"
    => /\ \A T \in Times :
            /\ StampedAt(cache_info_file, T)
               => last.stale = Bool(now > T + CACHE_EXPIRY_DAYS * 24)
            /\ (StampedAt(otel_info_file, T) /\ last.otel_stale # "not evaluated")
               => last.otel_stale = Bool(now > T + CACHE_EXPIRY_DAYS * 24)
       /\ cache_info_file = AbsentFile => last.stale = "True"
       /\ (otel_info_file = AbsentFile /\ last.otel_stale # "not evaluated")
          => last.otel_stale = "True"

\* Both records are exactly seven days old and both are reported not stale.
C8_Witness ==
    /\ last.op = "get_cache_status"
    /\ now = 7 * 24
    /\ StampedAt(cache_info_file, 0)
    /\ StampedAt(otel_info_file, 0)
    /\ last.stale = "False"
    /\ last.otel_stale = "False"

\* C9: whatever the record file holds that is no usable record, the
\* staleness predicate returns true and never raises.
C9_UnusableRecordIsStale ==
    last.op = "get_cache_status"
    => /\ Unusable(cache_info_file) => last.stale = "True"
       /\ (Unusable(otel_info_file) /\ last.otel_stale # "not evaluated")
          => last.otel_stale = "True"

\* C10: a record saved with last_updated = T and read back has, at every
\* time, the staleness computed from T, and is the record that was saved.
C10_SaveLoadRoundTrip ==
    /\ last.op = "_save_cache_info"
       => /\ _get_cache_info(cache_info_file).lu = "string"
          /\ fromisoformat(_get_cache_info(cache_info_file).text)
               = [ok |-> TRUE, t |-> now]
          /\ \A t \in Times :
               _is_cache_stale(cache_info_file, t)
                 = Bool(t > now + CACHE_EXPIRY_DAYS * 24)
    /\ last.op = "_save_otel_cache_info"
       => /\ _get_otel_cache_info(otel_info_file).lu = "string"
          /\ fromisoformat(_get_otel_cache_info(otel_info_file).text)
               = [ok |-> TRUE, t |-> now]
          /\ \A t \in Times :
               _is_otel_cache_stale(otel_info_file, t)
                 = Bool(t > now + CACHE_EXPIRY_DAYS * 24)

\* A record stamped one hour before the seven-day mark has been saved over a
\* damaged one.
C10_Witness ==
    /\ last.op = "_save_cache_info"
    /\ now = ExpiryHours - 1
    /\ StampedAt(cache_info_file, ExpiryHours - 1)
    /\ Unusable(otel_info_file)

\* C11: right after a fetch that succeeded the source is fresh: the staleness
\* predicate returns false, the corpus directory exists, and a fetch with
\* force=false skips at every later time up to seven days after the fetch
\* and downloads again at every time beyond.
C11_SuccessfulFetchMakesFresh ==
    /\ (last.op = "download_docs" /\ last.result = "True")
       => /\ _is_cache_stale(cache_info_file, now) = "False"
          /\ extracted_dir.exists
          /\ \A t \in Times, resp \in Responses :
               t >= now
               => \E r \in {download_docs(FALSE, resp, cache_info_file,
                                          extracted_dir, zip_file, t)} :
                     IF t <= now + ExpiryHours
                     THEN r.result = "False" /\ r.requests = 0
                     ELSE r.requests = 1
    /\ (last.op = "download_otel_docs" /\ last.result = "True")
       => /\ _is_otel_cache_stale(otel_info_file, now) = "False"
          /\ otel_docs_dir.exists
          /\ \A t \in Times :
               t >= now
               => \E b \in {otel_begin(FALSE, include_upstream,
                                       otel_info_file, otel_docs_dir, t)} :
                     IF t <= now + ExpiryHours
                     THEN ~b.go /\ b.result = "False"
                     ELSE b.go

\* An unforced fetch over a record that had gone stale has succeeded and
\* stamped the record anew.
C11_Witness ==
    /\ last.op = "download_docs"
    /\ ~last.force
    /\ last.result = "True"
    /\ now = ExpiryHours + 1
    /\ StampedAt(cache_info_file, ExpiryHours + 1)
    /\ extracted_dir = Dir(TRUE, DocNames)

\* C12: after a bulk fetch that succeeded the extracted corpus holds exactly
\* the files of the archive just downloaded; no file of the version extracted
\* before remains.
C12_CorpusIsTheNewArchive ==
    (fetch.pc = "idle" /\ last.op = "download_docs" /\ last.result = "True")
    => /\ extracted_dir = Dir(TRUE, zip_file.files)
       /\ \A n \in fetch.removed :
            n \in extracted_dir.files => n \in zip_file.files

\* A fetch has replaced a corpus of two files by an archive holding one.
C12_Witness ==
    /\ fetch.pc = "idle"
    /\ last.op = "download_docs"
    /\ last.result = "True"
    /\ fetch.removed = DocNames
    /\ zip_file = Content("zip", {"a.md"}, {"a.md"})
    /\ extracted_dir = Dir(TRUE, {"a.md"})

\* C13: a bulk fetch downloads, deletes the extracted directory, extracts the
\* archive and writes the record, in this order: docs.zip changes only in
\* the request step, the directory only after that and before the save, an
\* extraction lands in a directory the old files have left, and the record
\* changes only once the archive has been extracted in full.
C13_RecordWrittenAfterExtraction ==
    [][/\ zip_file' # zip_file
          => /\ fetch.pc = "request"
             /\ extracted_dir' = extracted_dir
             /\ cache_info_file' = cache_info_file
       /\ extracted_dir' # extracted_dir
          => /\ fetch.pc \in {"rmtree", "mkdir", "extract"}
             /\ fetch.pc = "extract"
                => /\ extracted_dir.exists
                   /\ extracted_dir.files \subseteq zip_file.files
             /\ cache_info_file' = cache_info_file
       /\ cache_info_file' # cache_info_file
          => /\ fetch.pc \in {"save", "dump"}
             /\ ~BadArchive(zip_file)
             /\ extracted_dir = Dir(TRUE, zip_file.files)
             /\ extracted_dir' = extracted_dir]_vars

\* The new archive replaced two files and is extracted in full; the record
\* of the earlier fetch is still on disk and is written next.
C13_Witness ==
    /\ fetch.pc = "save"
    /\ fetch.removed = DocNames
    /\ zip_file = Content("zip", DocNames, DocNames)
    /\ extracted_dir = Dir(TRUE, DocNames)
    /\ StampedAt(cache_info_file, 0)
    /\ now = ExpiryHours + 1

\* C20: a reader of the cache record that runs while the record is being
\* saved finds the complete old record or the complete new one, never an
\* empty or half-written file.
C20_ReaderSeesWholeRecord ==
    [][(last'.op = "get_cache_status" /\ fetch' = fetch /\ fetch.pc # "idle")
       => cache_info_file.form # "empty"]_vars

\* C14: in a per-component sweep an answer other than a persisted 200 (404,
\* 403, another status, a transport error, a file that cannot be written)
\* neither ends the sweep nor raises and counts nothing; a persisted 200
\* counts one; the count saved in the record is the number of files the
\* sweep put on disk.
C14_SweepCountsPersisted200s ==
    [][/\ (sweep.pc = "fetch" /\ last'.requests = last.requests + 1)
          => /\ sweep'.pc \in {"fetch", "enumerate", "finish"}
             /\ last'.result = "none"
             /\ last'.exc = "none"
             /\ IF last'.served = "200"
                THEN /\ sweep'.files_downloaded = sweep.files_downloaded + 1
                     /\ otel_docs_dir'.files =
                          otel_docs_dir.files
                            \cup {<<component_types[sweep.cat],
                                    sweep.names[sweep.idx]>>}
                     /\ otel_docs_dir'.files # otel_docs_dir.files
                ELSE /\ sweep'.files_downloaded = sweep.files_downloaded
                     /\ otel_docs_dir' = otel_docs_dir
       /\ sweep'.pc # "idle"
          => sweep'.files_downloaded = Cardinality(otel_docs_dir'.files)
       /\ (sweep.pc = "finish" /\ sweep'.pc = "idle")
          => /\ last'.exc = "none"
             /\ last'.result \in {"True", "False"}
             /\ sweep.files_downloaded > 0
                => otel_info_file'.files_downloaded = sweep.files_downloaded]_vars

\* A sweep over five candidates has ended without raising: two were served
\* 200, three were not, the last of them a 404; the record says 2.
C14_Witness ==
    /\ sweep.pc = "idle"
    /\ last.op = "download_otel_docs"
    /\ last.result = "True"
    /\ last.requests = Len(component_types) + 5
    /\ last.served = "404"
    /\ otel_info_file.files_downloaded = 2
    /\ Cardinality(otel_docs_dir.files) = 2

\* The names of the directory entries of a listing; with named_only, of those
\* whose name is not empty.
ListedDirNames(listing, named_only) ==
    LET Wanted(c) == c.type = "dir" /\ (named_only => c.name # "")
        dirs == IF listing.kind = "list"
                THEN SelectSeq(listing.entries, Wanted)
                ELSE <<>>
    IN  [i \in 1..Len(dirs) |-> dirs[i].name]

\* C15: when the listing request fails, answers a status other than 200, a
\* body that is no list or a list without directory entries, the candidates
\* of the category are its static list; when it lists at least one directory
\* they are exactly the listed directory names; the sweep goes on either way.
C15_ListedDirectoriesOrStatic ==
    [][(sweep.pc = "enumerate" /\ last'.requests = last.requests + 1)
       => /\ sweep'.pc = "fetch"
          /\ last'.exc = "none"
          /\ sweep'.names =
               IF ListedDirNames(last'.served, FALSE) # <<>>
               THEN ListedDirNames(last'.served, FALSE)
               ELSE common_components(component_types[sweep.cat])]_vars

\* C15 as amended: only directory entries with a non-empty name count; a
\* listing whose directories are all nameless falls back to the static list.
C15_NamedDirectoriesOrStatic ==
    [][(sweep.pc = "enumerate" /\ last'.requests = last.requests + 1)
       => /\ sweep'.pc = "fetch"
          /\ last'.exc = "none"
          /\ sweep'.names =
               IF ListedDirNames(last'.served, TRUE) # <<>>
               THEN ListedDirNames(last'.served, TRUE)
               ELSE common_components(component_types[sweep.cat])]_vars

\* A listing whose only directory entry has no name has been answered, and
\* the candidates are the static list of the category.
C15_Witness ==
    /\ sweep.pc = "fetch"
    /\ sweep.idx = 1
    /\ last.served = Listing("list", <<Entry("README.md", "file"), Entry("", "dir")>>)
    /\ sweep.names = common_components(component_types[sweep.cat])

\* The documents the call recorded in `context` tiered, in scan order.
ScannedDocs ==
    get_edot_collector_docs(extracted_dir, context.order)
    \o get_otel_collector_docs(include_upstream, otel_docs_dir, context.order)

ComponentType == <<"r", "e", "c", "e", "i", "v", "e", "r">>

\* A scanned document that can be read and whose file name contains the
\* component name of the call recorded in `context`.
ReadableExactName(f) ==
    /\ f.kind = "file"
    /\ tier(f, ComponentType, context.component_name) = "exact"

\* C16: whenever a readable document whose file name contains the component
\* name is among the scanned documents, the first block of the context is an
\* ExactName block, and no ExactName block follows a block of another kind.
C16_ExactNameFirst ==
    context # NoContext =>
        LET blocks == context.result.blocks IN
        /\ (\E i \in 1..Len(ScannedDocs) : ReadableExactName(ScannedDocs[i]))
           => (blocks # <<>> /\ blocks[1].kind = "exact")
        /\ \A i \in 1..Len(blocks) : \A j \in 1..Len(blocks) :
               (blocks[i].kind = "exact" /\ blocks[j].kind # "exact") => i < j

\* C17: the context of every call has at most three blocks.
C17_AtMostThreeBlocks ==
    Len(context.result.blocks) <= 3

\* A call for which four documents matched, two by name and two by content,
\* has returned three blocks.
C17_Witness ==
    /\ Len(context.result.blocks) = 3
    /\ Cardinality({i \in 1..Len(ScannedDocs) :
           tier(ScannedDocs[i], ComponentType, context.component_name)
             \in {"exact", "content"}}) = 4

\* The longest string three blocks can make when each carries the largest of
\* the amounts of text a block is given (3000 characters) under the longest
\* label the scanned file names allow.
ContextCap ==
    LET names == {Len(f.name) : f \in {context.order[i] : i \in 1..Len(context.order)}}
        longest == IF names = {} THEN 0
                   ELSE CHOOSE n \in names : \A m \in names : m <= n
    IN  3 * (10 + longest + 1 + 3000 + 4) + 2 * 2

\* C18: the length of the context is bounded by a constant that does not
\* depend on the length of the documents or of their lines.
C18_ContextIsSizeCapped ==
    context.result.chars <= ContextCap

\* No document of the corpus is in reach of the call recorded in `context`:
\* neither directory exists, or the ones that exist are empty.
NothingFetched ==
    /\ ~extracted_dir.exists \/ extracted_dir.files = {}
    /\ ~otel_docs_dir.exists \/ otel_docs_dir.files = {}

\* C19: a call made while no corpus has been fetched returns the empty
\* string.
C19_EmptyCorpusGivesEmptyString ==
    (context # NoContext /\ NothingFetched)
        => (context.result.blocks = <<>> /\ context.result.chars = 0)

\* A call with a configuration, made while neither directory exists, has
\* returned.
C19_Witness ==
    /\ context # NoContext
    /\ context.component_config = "dict"
    /\ ~extracted_dir.exists
    /\ ~otel_docs_dir.exists
    /\ context.result.chars = 0

\* A step of a running sweep that issued a content request.
ContentRequest ==
    sweep.pc = "fetch" /\ last'.requests = last.requests + 1

\* C22: while a sweep is among the candidates, a step either leaves the
\* sweep where it is and issues no request, or issues exactly one content
\* request and moves to the next candidate, the next category or the end;
\* a 403 is no exception.
C22_OneRequestPerCandidate ==
    [][sweep.pc = "fetch"
       => \/ sweep' = sweep /\ last'.requests = last.requests
          \/ /\ ContentRequest
             /\ \/ /\ sweep'.pc = "fetch"
                   /\ sweep'.cat = sweep.cat
                   /\ sweep'.names = sweep.names
                   /\ sweep'.idx = sweep.idx + 1
                \/ /\ sweep.idx = Len(sweep.names)
                   /\ sweep'.pc = "enumerate"
                   /\ sweep'.cat = sweep.cat + 1
                \/ /\ sweep.idx = Len(sweep.names)
                   /\ sweep.cat = Len(component_types)
                   /\ sweep'.pc = "finish"]_vars

\* The first of two candidates was answered 403 and the sweep stands at the
\* second after one listing request and one content request.
C22_Witness ==
    /\ sweep.pc = "fetch"
    /\ sweep.idx = 2
    /\ sweep.cat = 1
    /\ last.served = "403"
    /\ last.requests = 2

\* The file <category>/<name>.md of the candidate a sweep stands at.
CandidateFile == <<component_types[sweep.cat], sweep.names[sweep.idx]>>

NameInFileName(f) ==
    contains(lower(f.name), lower(context.component_name))

\* The word occurs in the body of a document that can be read, letter case
\* aside.
InBody(f, word) ==
    /\ f.kind = "file"
    /\ \E i \in 1..Len(f.lines) : contains(lower(f.lines[i].text), lower(word))

\* The scanned documents a block of the result names.
BlockDocs(b) ==
    {f \in {ScannedDocs[i] : i \in 1..Len(ScannedDocs)} :
        \E j \in 1..Len(b.texts) : b.texts[j].doc = f.name}

\* C24: every scanned document is given one tier, the first that applies: a
\* document whose file name contains the component name is ExactName
\* whatever its body says and whether or not it can be read, otherwise one
\* whose body contains the name is ContentMention, otherwise one whose body
\* contains the type is TypeMention; exact blocks are made only from
\* ExactName documents and content blocks only from ContentMention ones.
C24_FirstMatchingTierWins ==
    context # NoContext =>
        /\ \A i \in 1..Len(ScannedDocs) :
             LET f == ScannedDocs[i]
                 t == tier(f, ComponentType, context.component_name)
             IN  /\ (t = "exact") <=> NameInFileName(f)
                 /\ (t = "content")
                      <=> (~NameInFileName(f) /\ InBody(f, context.component_name))
                 /\ (t = "type")
                      <=> /\ ~NameInFileName(f)
                          /\ ~InBody(f, context.component_name)
                          /\ InBody(f, ComponentType)
        /\ \A k \in 1..Len(context.result.blocks) :
             LET b == context.result.blocks[k] IN
             /\ b.kind = "exact" => \A f \in BlockDocs(b) : NameInFileName(f)
             /\ b.kind = "content"
                  => \E f \in BlockDocs(b) :
                         ~NameInFileName(f) /\ InBody(f, context.component_name)

\* A call has tiered otlpreceiver.md, whose body mentions otlp too, and
\* general.md, which mentions it only in its body: the first block is the
\* exact block of the one and a content block of the other follows.
C24_Witness ==
    /\ context.component_name = <<"O", "T", "L", "P">>
    /\ ExactDoc \in extracted_dir.files
    /\ InBody(ExactDoc, context.component_name)
    /\ Len(context.result.blocks) >= 2
    /\ context.result.blocks[1].kind = "exact"
    /\ context.result.blocks[1].texts[1].doc = ExactDoc.name
    /\ \E k \in 2..Len(context.result.blocks) :
           /\ context.result.blocks[k].kind = "content"
           /\ context.result.blocks[k].texts[1].doc = General.name

\* The blocks of one kind in the result of the call recorded in `context`.
BlocksOfKind(kind) ==
    {k \in 1..Len(context.result.blocks) : context.result.blocks[k].kind = kind}

\* The number of characters of a document: its lines and the line breaks
\* between them.
RECURSIVE CharsOf(_, _)
CharsOf(f, i) ==
    IF i > Len(f.lines) THEN 0
    ELSE Len(f.lines[i].text) + f.lines[i].pad
         + (IF i < Len(f.lines) THEN 1 ELSE 0) + CharsOf(f, i + 1)

\* C25: the context has at most 2 exact blocks and at most 2 content blocks,
\* and an exact block carries the first 3000 characters of its document, all
\* of it when the document is shorter, between the label and the closing
\* line.
C25_TwoPerTierAndExactPrefix ==
    context # NoContext =>
        /\ Cardinality(BlocksOfKind("exact")) <= 2
        /\ Cardinality(BlocksOfKind("content")) <= 2
        /\ \A k \in BlocksOfKind("exact") :
             LET b == context.result.blocks[k] IN
             /\ Len(b.texts) = 1
             /\ b.texts[1].part = "prefix"
             /\ \E f \in BlockDocs(b) :
                  /\ f.kind = "file"
                  /\ NameInFileName(f)
                  /\ b.texts[1].chars
                       = (IF CharsOf(f, 1) > 3000 THEN 3000 ELSE CharsOf(f, 1))
                  /\ b.chars = Len(<<"-", "-", "-", "\n", "F", "r", "o", "m", ":", " ">>)
                               + Len(f.name) + 1 + b.texts[1].chars
                               + Len(<<"\n", "-", "-", "-">>)

\* Three documents are named after the component, one of them longer than
\* 3000 characters and one shorter: the context has two exact blocks, one
\* cut to 3000 characters and one whole.
C25_Witness ==
    /\ Cardinality({i \in 1..Len(ScannedDocs) :
           ReadableExactName(ScannedDocs[i])}) = 3
    /\ Cardinality(BlocksOfKind("exact")) = 2
    /\ \E k \in BlocksOfKind("exact") :
           /\ context.result.blocks[k].texts[1].doc = ExactDoc.name
           /\ context.result.blocks[k].texts[1].chars = 3000
           /\ CharsOf(ExactDoc, 1) > 3000
    /\ \E k \in BlocksOfKind("exact") :
           /\ context.result.blocks[k].texts[1].doc = ExactUpper.name
           /\ context.result.blocks[k].texts[1].chars = CharsOf(ExactUpper, 1)

\* Four documents mention the component in their body only, and the context
\* has two content blocks.
C25_WitnessContent ==
    /\ Cardinality({i \in 1..Len(ScannedDocs) :
           tier(ScannedDocs[i], ComponentType, context.component_name)
             = "content"}) = 4
    /\ Cardinality(BlocksOfKind("content")) = 2

\* The first line of a document that contains the component name, letter
\* case aside.
FirstMention(f) ==
    CHOOSE m \in 1..Len(f.lines) :
        /\ contains(lower(f.lines[m].text), lower(context.component_name))
        /\ \A n \in 1..(m - 1) :
               ~contains(lower(f.lines[n].text), lower(context.component_name))

\* C26: the window of a content block begins 3 lines before the first line
\* that contains the component name, or at the first line of the document
\* when fewer than 3 lines precede the mention.
C26_WindowStartsThreeLinesEarlier ==
    context # NoContext =>
        \A k \in BlocksOfKind("content") :
            LET b == context.result.blocks[k] IN
            b.texts[1].part = "window"
                => \E f \in BlockDocs(b) :
                       /\ InBody(f, context.component_name)
                       /\ b.texts[1].first
                            = (IF FirstMention(f) > 3 THEN FirstMention(f) - 3
                               ELSE 1)

\* The window of a content block ended on a heading line although lines
\* were left and neither limit was passed.
EndsAtHeading(f, t) ==
    LET end == t.first + t.count - 1 IN
    /\ end < Len(f.lines)
    /\ is_heading(f.lines[end])
    /\ t.count <= 50
    /\ t.chars <= 2000

\* C27: the window of a content block has at most 50 lines, and it ends at
\* a heading only when the heading is more than 10 lines past the line 3
\* lines before the first mention.
C27_WindowAtMostFiftyLines ==
    context # NoContext =>
        \A k \in BlocksOfKind("content") :
            LET b == context.result.blocks[k]
                t == b.texts[1]
            IN  t.part = "window"
                => /\ t.count <= 50
                   /\ \A f \in BlockDocs(b) :
                        (InBody(f, context.component_name) /\ EndsAtHeading(f, t))
                        => (t.first + t.count - 1)
                             > (IF FirstMention(f) > 3 THEN FirstMention(f) - 3
                                ELSE 1) + 10

\* The lines _extract_relevant_sections collected from a document for the
\* call recorded in `context`, before it decides whether to return them.
Collected(f) == scan_lines(f.lines, context.component_name, 1, 0, 0, 0, 0)

\* The text a content block must carry when windows of at least `least`
\* characters are used: the window, or else the first 2000 characters of
\* the document.
ContentTextFor(f, t, least) ==
    IF Collected(f).chars >= least
    THEN /\ t.part = "window"
         /\ t.chars = Collected(f).chars
    ELSE /\ t.part = "prefix"
         /\ t.chars = (IF CharsOf(f, 1) > 2000 THEN 2000 ELSE CharsOf(f, 1))

\* C28: a content block carries the window when the window has at least 100
\* characters, and the first 2000 characters of the document otherwise.
C28_WindowOfAtLeast100IsUsed ==
    context # NoContext =>
        \A k \in BlocksOfKind("content") :
            \E f \in BlockDocs(context.result.blocks[k]) :
                /\ InBody(f, context.component_name)
                /\ ContentTextFor(f, context.result.blocks[k].texts[1], 100)

\* C28 as amended: the window is used when it has more than 100 characters.
C28_WindowOfMoreThan100IsUsed ==
    context # NoContext =>
        \A k \in BlocksOfKind("content") :
            \E f \in BlockDocs(context.result.blocks[k]) :
                /\ InBody(f, context.component_name)
                /\ ContentTextFor(f, context.result.blocks[k].texts[1], 101)

\* The window collected from hundred.md has exactly 100 characters and the
\* block carries the beginning of the document instead.
C28_Witness ==
    /\ Hundred \in extracted_dir.files
    /\ Collected(Hundred).chars = 100
    /\ \E k \in BlocksOfKind("content") :
           /\ context.result.blocks[k].texts[1].doc = Hundred.name
           /\ context.result.blocks[k].texts[1].part = "prefix"
           /\ context.result.blocks[k].texts[1].chars = CharsOf(Hundred, 1)

\* The place of a kind of block in the order of filling.
KindRank(kind) ==
    CASE kind = "exact" -> 1
      [] kind = "content" -> 2
      [] kind = "field" -> 3
      [] kind = "troubleshooting" -> 4
      [] OTHER -> 5

\* The exact and content blocks of a result, in order.
MatchBlocks(result) ==
    SelectSeq(result.blocks, LAMBDA b : b.kind \in {"exact", "content"})

\* The same call made without a configuration.
WithoutConfig ==
    get_component_context(ComponentType, context.component_name, "None",
                          include_upstream, extracted_dir, otel_docs_dir,
                          context.order)

\* C29: the blocks come in the order exact, content, field, troubleshooting;
\* a field block is there only if the configuration is non-empty and fewer
\* than 3 exact and content blocks are, a troubleshooting block only if
\* fewer than 3 blocks precede it, and the exact and content blocks are the
\* ones the call returns without a configuration.
C29_FilledInFixedOrder ==
    context # NoContext =>
        LET blocks == context.result.blocks IN
        /\ \A i \in 1..Len(blocks) : \A j \in 1..Len(blocks) :
               i < j => KindRank(blocks[i].kind) <= KindRank(blocks[j].kind)
        /\ Cardinality(BlocksOfKind("field")) <= 1
        /\ Cardinality(BlocksOfKind("troubleshooting")) <= 1
        /\ BlocksOfKind("field") # {}
             => /\ context.component_config = "dict"
                /\ Len(MatchBlocks(context.result)) < 3
        /\ BlocksOfKind("troubleshooting") # {}
             => Len(MatchBlocks(context.result))
                + Cardinality(BlocksOfKind("field")) < 3
        /\ MatchBlocks(context.result) = MatchBlocks(WithoutConfig)

\* A call with a configuration has returned a content block, a field block
\* and a troubleshooting block, in this order.
C29_Witness ==
    /\ context.component_config = "dict"
    /\ Len(context.result.blocks) = 3
    /\ context.result.blocks[1].kind = "content"
    /\ context.result.blocks[2].kind = "field"
    /\ context.result.blocks[3].kind = "troubleshooting"

\* A call with a configuration found an example, and the three exact and
\* content blocks left no room for it.
C29_WitnessFull ==
    /\ context.component_config = "dict"
    /\ _get_field_context(extracted_dir, context.order,
                          context.component_name).texts # <<>>
    /\ Len(MatchBlocks(context.result)) = 3

\* The generic reference document reference/edot-collector/edot-collector.md
\* of the extracted archive, when it is there.
ReferenceDocs ==
    {f \in extracted_dir.files :
        /\ extracted_dir.exists
        /\ f.area = "edot"
        /\ f.name = MainDoc.name
        /\ f.kind = "file"}

\* C30: the result has a reference block exactly when it has no block of
\* another kind and the generic reference document exists; the reference
\* block is then the only block and carries the first 2000 characters of
\* the document, all of it when the document is shorter.
C30_ReferenceOnlyAsLastResort ==
    context # NoContext =>
        LET blocks == context.result.blocks
            others == {k \in 1..Len(blocks) : blocks[k].kind # "reference"}
        IN  /\ (BlocksOfKind("reference") # {})
                  <=> (others = {} /\ ReferenceDocs # {})
            /\ \A k \in BlocksOfKind("reference") :
                 /\ Len(blocks) = 1
                 /\ \E f \in ReferenceDocs :
                      /\ blocks[k].texts[1].chars
                           = (IF CharsOf(f, 1) > 2000 THEN 2000 ELSE CharsOf(f, 1))
                      /\ blocks[k].chars
                           = 35 + blocks[k].texts[1].chars + 4
                      /\ blocks[k].texts[1].chars <= 2000

\* A call for a component no document mentions has returned the first 2000
\* characters of the longer reference document as its only block.
C30_Witness ==
    /\ context.component_name = <<"b", "a", "t", "c", "h">>
    /\ MainDoc \in ReferenceDocs
    /\ CharsOf(MainDoc, 1) > 2000
    /\ Len(context.result.blocks) = 1
    /\ context.result.blocks[1].kind = "reference"
    /\ context.result.blocks[1].texts[1].chars = 2000

\* A download raised while the explainer of this session set up its
\* documentation.
SetupFailed == explainer.state # "none" /\ explainer.caught # "none"

\* The latest prompt carries no documentation context.
PromptWithoutContext ==
    /\ explainer.prompt.chars = 0
    /\ explainer.prompt.docs_context = NoResult

\* C21: when a download raises during set-up the constructor raises nothing
\* of it (it returns whenever Ollama answers the connection test), the
\* documentation flag is off from then on, and every explain_component call
\* of the session builds its prompt without asking for context and goes on
\* to the request; a context retrieval that raises gives a prompt without
\* context as well, and the call goes on to the request.
C21_DocsFailureNeverBlocksExplanation ==
    /\ SetupFailed =>
         /\ explainer.exc \in {test_connection(o) : o \in OllamaResponses}
         /\ explainer.state = "constructed" <=> explainer.exc = "none"
         /\ ~explainer.use_docs
         /\ explainer.result # "none" =>
              /\ explainer.prompt.retrieval = "not attempted"
              /\ PromptWithoutContext
              /\ explainer.result \in {explain_result(p) : p \in {"ok", "RequestException"}}
    /\ explainer.prompt.retrieval \notin {"none", "returned"} =>
         /\ PromptWithoutContext
         /\ explainer.result \in {explain_result(p) : p \in {"ok", "RequestException"}}

\* A session whose archive did not extract: the explainer was constructed,
\* the corpus on disk has a document named after the component, and the
\* component was explained from a prompt without context.
C21_Witness ==
    /\ SetupFailed
    /\ explainer.state = "constructed"
    /\ explainer.caught = "Error processing docs"
    /\ ExactDoc \in extracted_dir.files
    /\ explainer.prompt.component_name = <<"o", "t", "l", "p">>
    /\ explainer.result = "explanation"
    /\ PromptWithoutContext

\* A session with documentation on in which one retrieval raised and the
\* component was explained all the same.
C21_WitnessRetrieval ==
    /\ explainer.use_docs
    /\ explainer.prompt.retrieval = "OSError"
    /\ ExactDoc \in extracted_dir.files
    /\ explainer.result = "explanation"

\* A session with documentation on whose prompt carries context.
C21_WitnessContext ==
    /\ explainer.use_docs
    /\ explainer.prompt.retrieval = "returned"
    /\ explainer.prompt.chars > 36

\* The scanned documents of the TypeMention tier for the call recorded in
\* `context`.
TypeMentions ==
    {f \in {ScannedDocs[i] : i \in 1..Len(ScannedDocs)} :
        tier(f, ComponentType, context.component_name) = "type"}

\* The blocks of the result that carry text of a TypeMention document.
TypeMentionBlocks ==
    {k \in 1..Len(context.result.blocks) :
        BlockDocs(context.result.blocks[k]) \cap TypeMentions # {}}

\* The TypeMention documents stay out of the exact and content blocks, and
\* a block that carries one stands alone.
TypeMentionsNeverRanked ==
    context # NoContext =>
        /\ \A k \in BlocksOfKind("exact") \cup BlocksOfKind("content") :
             \A j \in 1..Len(context.result.blocks[k].texts) :
                 \A f \in TypeMentions :
                     context.result.blocks[k].texts[j].doc # f.name
        /\ \A k \in TypeMentionBlocks :
             context.result.blocks[k].kind = "reference"
               => Len(context.result.blocks) = 1

\* C31: the TypeMention documents are the last resort: they are in no exact
\* or content block, and when the call produced no exact, content, field or
\* troubleshooting block and a TypeMention document was scanned, the context
\* carries text of a TypeMention document.
C31_TypeMentionIsTheLastResort ==
    context # NoContext =>
        /\ TypeMentionsNeverRanked
        /\ (/\ TypeMentions # {}
            /\ \A k \in 1..Len(context.result.blocks) :
                   context.result.blocks[k].kind = "reference")
             => TypeMentionBlocks # {}

\* The positions, in the order of enumeration, of the readable
\* troubleshooting documents whose file name contains the component name.
NamedTroubleshooting ==
    {i \in 1..Len(context.order) :
        /\ extracted_dir.exists
        /\ context.order[i].area = "troubleshoot"
        /\ context.order[i].kind = "file"
        /\ contains(lower(context.order[i].name), lower(context.component_name))}

\* The generic troubleshooting document, when it can be read and its body
\* mentions the component name.
GenericTroubleshooting ==
    {f \in extracted_dir.files :
        /\ extracted_dir.exists
        /\ f.area = "troubleshoot"
        /\ f.name = TroubleGeneral.name
        /\ InBody(f, context.component_name)}

\* The document the troubleshooting lookup takes its text from, if any.
TroubleshootingSource ==
    IF NamedTroubleshooting # {}
    THEN {context.order[CHOOSE i \in NamedTroubleshooting :
                            \A j \in NamedTroubleshooting : i <= j]}
    ELSE GenericTroubleshooting

\* C32: the context has at most one troubleshooting block; it carries one
\* text, the first 1500 characters (all when shorter) of the first readable
\* troubleshooting document whose file name contains the component name,
\* or, when there is none, of the generic troubleshooting document provided
\* its body mentions the component name; when there is neither, or three
\* blocks came before, there is no troubleshooting block.
C32_OneTroubleshootingBlock ==
    context # NoContext =>
        LET blocks == context.result.blocks
            before == {k \in 1..Len(blocks) :
                          blocks[k].kind \in {"exact", "content", "field"}}
        IN  /\ Cardinality(BlocksOfKind("troubleshooting")) <= 1
            /\ (BlocksOfKind("troubleshooting") # {})
                  <=> (TroubleshootingSource # {} /\ Cardinality(before) < 3)
            /\ \A k \in BlocksOfKind("troubleshooting") :
                 /\ Len(blocks[k].texts) = 1
                 /\ \E f \in TroubleshootingSource :
                      LET t == blocks[k].texts[1]
                          label == IF NamedTroubleshooting # {}
                                   THEN 6 + Len(f.name) + 1 ELSE 44
                      IN  /\ t.doc = f.name
                          /\ t.part = "prefix"
                          /\ t.chars <= 1500
                          /\ t.chars = (IF CharsOf(f, 1) > 1500 THEN 1500
                                        ELSE CharsOf(f, 1))
                          /\ blocks[k].chars = 21 + label + t.chars + 4

\* A call over a corpus with two troubleshooting documents named after the
\* component and the generic one has returned the first 1500 characters of
\* the longer named document, which the enumeration met first.
C32_Witness ==
    /\ {TroubleDoc, TroubleSecond, TroubleGeneral} \subseteq extracted_dir.files
    /\ \E k \in BlocksOfKind("troubleshooting") :
         /\ context.result.blocks[k].texts[1].doc = TroubleDoc.name
         /\ context.result.blocks[k].texts[1].chars = 1500
         /\ CharsOf(TroubleDoc, 1) > 1500

\* A call has fallen back to the generic document because the only document
\* named after the component cannot be read.
C32_WitnessGeneric ==
    /\ TroubleUnreadable \in extracted_dir.files
    /\ \E k \in BlocksOfKind("troubleshooting") :
         context.result.blocks[k].texts[1].doc = TroubleGeneral.name

\* The call recorded in `context` made over the same corpus without the
\* entries that cannot be read.
WithoutUnreadable ==
    get_component_context(ComponentType, context.component_name,
                          context.component_config, include_upstream,
                          extracted_dir, otel_docs_dir,
                          SelectSeq(context.order, LAMBDA f : f.kind = "file"))

\* C33: a document that cannot be read is no candidate and stands in no
\* other document's way: the context is the one the call returns when the
\* unreadable documents are not in the corpus at all.
C33_UnreadableDocumentsChangeNothing ==
    context # NoContext => context.result = WithoutUnreadable

\* An unreadable document whose name does not match is skipped: the call
\* over its corpus has returned the blocks of the readable documents.
UnreadableSkipped ==
    /\ TroubleUnreadable \in extracted_dir.files
    /\ context.result.blocks # <<>>
    /\ context.result = WithoutUnreadable

\* C34: a query that lists the corpus while a bulk replace runs finds the
\* directory as the replace has left it so far: missing after the rmtree,
\* empty after the mkdir, part of the new archive during the extraction and
\* the whole archive only afterwards; and it can find the record fresh at
\* such a moment only when the replace was forced or found no directory.
C34_ReaderSeesTheReplaceHalfDone ==
    context # NoContext =>
        /\ context.pc = "mkdir" => ~context.dir.exists
        /\ context.pc = "open" => context.dir = Dir(TRUE, {})
        /\ context.pc = "extract"
             => /\ context.dir.exists
                /\ context.dir.files \subseteq context.zip.files
        /\ context.pc \in {"save", "dump"}
             => context.dir = Dir(TRUE, context.zip.files)
        /\ (context.pc \in {"mkdir", "open", "extract"} /\ context.stale = "False")
             => (context.force \/ context.removed = {})

\* A forced replace removed the two files of a fresh corpus and has
\* extracted one of the two files of the new archive; a query running now
\* has found that one file, and the record of the earlier fetch says the
\* cache is fresh.
C34_Witness ==
    /\ context # NoContext
    /\ context.pc = "extract"
    /\ context.force
    /\ context.removed = DocNames
    /\ context.zip.files = DocNames
    /\ context.dir = Dir(TRUE, {"a.md"})
    /\ context.stale = "False"
    /\ fetch.pc = "extract"
    /\ extracted_dir = context.dir

\* A query has found the directory missing under a fresh record.
C34_WitnessMissing ==
    /\ context # NoContext
    /\ context.pc = "mkdir"
    /\ context.removed = DocNames
    /\ ~context.dir.exists
    /\ context.stale = "False"

\* C35: the two sources are independent.  A bulk fetch, whether it succeeds,
\* fails or is skipped, leaves the per-component record and directory as
\* they were, and a per-component fetch leaves the bulk record, directory
\* and archive as they were; an unforced fetch is skipped exactly when its
\* own record is not stale and its own directory exists.
C35_SourcesAreIndependent ==
    [][/\ (last'.op = "download_docs" \/ bulk_vars' # bulk_vars)
          => UNCHANGED otel_vars
       /\ (last'.op = "download_otel_docs" \/ otel_vars' # otel_vars)
          => UNCHANGED bulk_vars
       /\ (last'.op = "download_docs" /\ ~last'.force /\ last'.result # "raised")
          => ((last'.result = "False" /\ last'.requests = 0)
                <=> (_is_cache_stale(cache_info_file, now) = "False"
                     /\ extracted_dir.exists))
       /\ (/\ last'.op = "download_otel_docs"
           /\ ~last'.force
           /\ include_upstream
           /\ last'.result # "raised")
          => (last'.requests = 0
                <=> (_is_otel_cache_stale(otel_info_file, now) = "False"
                     /\ otel_docs_dir.exists))]_vars

\* The staleness get_cache_status reports for a source is the one of that
\* source's record, whatever the record of the other source holds.
StalenessIsPerSource ==
    /\ \A other \in RecordContents :
         get_cache_status(cache_info_file, other, include_upstream, now).stale
           = _is_cache_stale(cache_info_file, now)
    /\ \A other \in RecordContents :
         get_cache_status(other, otel_info_file, TRUE, now).otel_stale
           \in {"not evaluated", _is_otel_cache_stale(otel_info_file, now)}

\* A bulk fetch has replaced corpus and record at a time when the
\* per-component source held a directory and a record of its own, both
\* older: they are still there.
C35_Witness ==
    /\ last.op = "download_docs"
    /\ last.result = "True"
    /\ StampedAt(cache_info_file, ExpiryHours + 1)
    /\ StampedAt(otel_info_file, 0)
    /\ otel_docs_dir.files # {}

\* A per-component fetch has written its record beside a bulk corpus and
\* record that an earlier fetch left.
C35_WitnessOtel ==
    /\ last.op = "download_otel_docs"
    /\ last.result = "True"
    /\ StampedAt(otel_info_file, ExpiryHours + 1)
    /\ StampedAt(cache_info_file, 0)
    /\ extracted_dir.exists

\* An unforced download_docs would be skipped now.
BulkWouldSkip ==
    _is_cache_stale(cache_info_file, now) = "False" /\ extracted_dir.exists

\* An unforced download_otel_docs would be skipped now.
OtelWouldSkip ==
    _is_otel_cache_stale(otel_info_file, now) = "False" /\ otel_docs_dir.exists

\* C36: whenever an unforced fetch would be skipped, the corpus on disk is
\* the whole corpus of the fetch that wrote the record: for the bulk source
\* the corpus the session started with while no archive was downloaded and
\* otherwise every file of the latest archive, which is a sound one; for the
\* per-component source as many files as the record counts.
C36_FreshRecordMeansCompleteCorpus ==
    /\ BulkWouldSkip
         => IF zip_file = NoContent
            THEN extracted_dir = Dir(TRUE, DocNames)
            ELSE /\ ~BadArchive(zip_file)
                 /\ extracted_dir = Dir(TRUE, zip_file.files)
    /\ OtelWouldSkip
         => Cardinality(otel_docs_dir.files) = otel_info_file.files_downloaded

\* The per-component half alone.
OtelFreshRecordMeansCompleteCorpus ==
    OtelWouldSkip
        => Cardinality(otel_docs_dir.files) = otel_info_file.files_downloaded

\* C37: a sweep that has begun takes the categories in the order of
\* component_types, one listing request for each, goes from the listing to
\* the candidates of the same category and from the last candidate to the
\* next category or to the end, returns True or False from there, and does
\* return whatever the requests are answered.
C37_SweepTerminates ==
    /\ [][/\ (sweep.pc = "idle" /\ sweep'.pc # "idle")
             => (sweep'.pc = "enumerate" /\ sweep'.cat = 1)
          /\ (sweep.pc = "enumerate" /\ sweep' # sweep)
             => /\ last'.requests = last.requests + 1
                /\ \/ sweep'.pc = "fetch" /\ sweep'.cat = sweep.cat
                   \/ sweep'.pc = "enumerate" /\ sweep'.cat = sweep.cat + 1
                   \/ sweep'.pc = "finish" /\ sweep.cat = Len(component_types)
          /\ (sweep.pc = "fetch" /\ sweep' # sweep)
             => /\ last'.requests = last.requests + 1
                /\ \/ /\ sweep'.pc = "fetch"
                      /\ sweep'.cat = sweep.cat
                      /\ sweep'.idx = sweep.idx + 1
                   \/ sweep'.pc = "enumerate" /\ sweep'.cat = sweep.cat + 1
                   \/ sweep'.pc = "finish" /\ sweep.cat = Len(component_types)
          /\ (sweep.pc = "finish" /\ sweep' # sweep)
             => /\ sweep' = Idle
                /\ last'.requests = last.requests
                /\ last'.result \in {"True", "False"}]_vars
    /\ (sweep.pc # "idle") ~> (sweep.pc = "idle")

\* A sweep has returned False after every one of its requests failed: four
\* listings and the five candidates of the static lists.
C37_Witness ==
    /\ sweep = Idle
    /\ last.op = "download_otel_docs"
    /\ last.result = "False"
    /\ last.served = "transport_error"
    /\ last.requests = 9

\* C38: the set-up of an explainer and the page's refresh call
\* download_otel_docs only when download_docs has returned: whatever the
\* documentation URL and the upstream repository answer, a download_docs
\* that raises is the only call made, and the upstream record and
\* directory are the ones from before; one that returns is followed by
\* download_otel_docs.
C38_UpstreamOnlyAfterBulkReturned ==
    /\ \A resp \in ExplainerResponses, env \in ExplainerEnvs :
         LET s == _init_docs(TRUE, resp, env, cache_info_file, extracted_dir,
                             zip_file, otel_info_file, otel_docs_dir, now)
             r == refresh_docs(resp, env, TRUE, cache_info_file,
                               extracted_dir, zip_file, otel_info_file,
                               otel_docs_dir, now)
         IN  /\ s.bulk = download_docs(FALSE, resp, cache_info_file,
                                       extracted_dir, zip_file, now)
             /\ r.bulk = download_docs(TRUE, resp, cache_info_file,
                                       extracted_dir, zip_file, now)
             /\ \A c \in {s, r} :
                  IF c.bulk.result = "raised"
                  THEN /\ c.calls = <<"download_docs">>
                       /\ c.caught = c.bulk.exc
                       /\ c.otel = OtelOutcome(otel_info_file, otel_docs_dir,
                                               "none", "none", 0)
                  ELSE c.calls = <<"download_docs", "download_otel_docs">>
    /\ explainer.docs_manager
         => \/ explainer.calls = <<"download_docs", "download_otel_docs">>
            \/ explainer.calls = <<"download_docs">> /\ explainer.caught # "none"
    /\ last.op = "refresh_docs"
         => IF last.exc # "none"
            THEN last.requests = 1 /\ last.result = "Error refreshing docs"
            ELSE last.requests >= 1 + Len(component_types)

\* The page's refresh failed in download_docs with an upstream corpus on
\* disk, and the explainer made afterwards failed in download_docs too:
\* each made the one call, and the upstream documents are still there.
C38_Witness ==
    /\ last.op = "refresh_docs"
    /\ last.exc = "Failed to download docs"
    /\ last.requests = 1
    /\ explainer.calls = <<"download_docs">>
    /\ explainer.caught # "none"
    /\ otel_docs_dir.files # {}
    /\ otel_info_file.form # "absent"

\* The name matches of the call recorded in `context` among the bulk
\* documents it scanned and among the upstream ones, each in scan order.
BulkNamed ==
    SelectSeq(get_edot_collector_docs(extracted_dir, context.order),
              NameInFileName)

UpstreamNamed ==
    SelectSeq(get_otel_collector_docs(include_upstream, otel_docs_dir,
                                      context.order),
              NameInFileName)

ExactBlocks ==
    SelectSeq(context.result.blocks, LAMBDA b : b.kind = "exact")

\* An ExactName block made from an upstream document.
UpstreamExactBlock ==
    \E i \in 1..Len(ExactBlocks), j \in 1..Len(UpstreamNamed) :
        ExactBlocks[i].texts = <<prefix(UpstreamNamed[j], ExactChars)>>

\* C39 as stated: whenever two or more documents of the bulk corpus have the
\* component name in their file names, no ExactName block of the context is
\* made from an upstream document.
C39_TwoBulkNamesShutUpstreamOut ==
    context # NoContext =>
        (Cardinality({f \in extracted_dir.files : NameInFileName(f)}) >= 2
            => ~UpstreamExactBlock)

\* C39 amended: the ExactName blocks are made from the first two name
\* matches, the scanned bulk documents in scan order and after them the
\* upstream ones, leaving out the ones that cannot be read; whenever two or
\* more of the bulk documents the query scans have the component name in
\* their file names, no ExactName block is made from an upstream document.
C39_ScannedBulkNamesComeFirst ==
    context # NoContext =>
        LET candidates == BulkNamed \o UpstreamNamed
            taken == SubSeq(candidates, 1, Min(MaxPerTier, Len(candidates)))
            read == SelectSeq(taken, LAMBDA f : f.kind = "file")
        IN  /\ Len(ExactBlocks) = Len(read)
            /\ \A i \in 1..Len(read) :
                 ExactBlocks[i].texts = <<prefix(read[i], ExactChars)>>
            /\ Len(BulkNamed) >= 2 => ~UpstreamExactBlock

\* A query for otlp found otlpreceiver.md and OTLP-exporter.md in the bulk
\* components directory and otlpreceiver.md upstream: both exact blocks are
\* the bulk documents.
C39_Witness ==
    /\ context.component_name = <<"o", "t", "l", "p">>
    /\ include_upstream
    /\ extracted_dir.files = {ExactDoc, ExactUpper}
    /\ otel_docs_dir.exists
    /\ OtelDoc \in otel_docs_dir.files
    /\ Len(BulkNamed) = 2
    /\ Len(UpstreamNamed) = 1
    /\ Len(ExactBlocks) = 2

\* The same query with one name match in the bulk directory: the upstream
\* document is the second exact block.
C39_WitnessUpstream ==
    /\ context.component_name = <<"o", "t", "l", "p">>
    /\ extracted_dir.files = {ExactDoc}
    /\ Len(UpstreamNamed) = 1
    /\ Len(ExactBlocks) = 2
    /\ ExactBlocks[2].texts = <<prefix(OtelDoc, ExactChars)>>

====
